---- MODULE Spec2Model ----
(***************************************************************************)
(* Model of the KN5 scene serializer (lib/kn5): the mesh splitter and      *)
(* vertex deduplicator, the vertex-limit splitter, the instance-group      *)
(* merger, the node tree writer and the two export entry points.           *)
(*                                                                         *)
(* Floats are fixed-point integers.  One EPSILON (1e-5) is UnitsPerEps     *)
(* units, so 1.0 is 100000 * UnitsPerEps units.                            *)
(***************************************************************************)
EXTENDS Integers, Sequences, FiniteSets, TLC

VARIABLES
    pc,                 \* position of the running operation
    obj,                \* the object handed to the mesh splitter
    material_positions, \* MaterialWriter.material_positions: material name -> id
    divided_meshes,     \* the records returned by _split_object_by_materials
    limit_meshes,       \* the records returned by _split_meshes_for_vertex_limit
    mesh_data,          \* the tuples returned by _extract_tree_mesh_data
    written,            \* the nodes written to the file, in order
    error,              \* message of the exception raised, or NoError
    group_loops,        \* the UvVertex built for every loop of one material group
    vertices,           \* keys of the dedup dict, in insertion order
    face_indices,       \* the dict value looked up for every loop inserted so far
    objects,            \* blend_data.objects
    regular_objects,    \* top-level objects write() has still to write
    kstree_groups,      \* instance groups write() has still to write
    warnings,           \* the warnings list shared by the writers
    entry,              \* the entry point called: "export_kn5" or "operator"
    existing,           \* whether a file was at filepath when the export was called
    dest,               \* the file at filepath
    tmp,                \* the file at filepath + ".tmp"
    sections,           \* the sections written to the open output file
    renamed_objects,    \* (object, original_name) of the objects the operator prefixed
    names_at_call,      \* the names of the objects when the entry point was called
    status,             \* what the entry point returned
    texconv,            \* whether texconv.exe is there: "present" or "absent"
    texconv_calls,      \* the runs of texconv.exe: the texture and what came of it
    available_textures, \* TextureWriter.available_textures: image name -> node
    texture_positions,  \* TextureWriter.texture_positions: image name -> position
    processed_textures, \* TextureWriter._processed_textures: name -> (name, data)
    texture_name_mapping, \* TextureWriter.texture_name_mapping
    texture_section,    \* the texture section written to the file
    previous_output,    \* what an earlier run on the same scene wrote
    vec,                \* a vector handed to the coordinate conversions
    there,              \* the vector after one conversion, and which one it was
    back,               \* the vector after the opposite conversion
    exported,           \* what the two convert_vector3 make of the vector
    current_file,       \* the .blend file that is open
    export_copy         \* whether Smart Export has saved the _Export.blend copy

meshVars == <<obj, material_positions, divided_meshes, limit_meshes, mesh_data, written>>
dedupVars == <<group_loops, vertices, face_indices>>
sceneVars == <<objects, regular_objects, kstree_groups, warnings>>
fileVars ==
    <<entry, existing, dest, tmp, sections, renamed_objects, names_at_call, status>>
textureVars == <<texconv, texconv_calls, available_textures, texture_positions, processed_textures,
                 texture_name_mapping, texture_section>>
runVars == <<previous_output>>
coordVars == <<vec, there, back, exported>>
smartVars == <<current_file, export_copy>>
vars == <<pc, error, meshVars, dedupVars, sceneVars, fileVars, textureVars, runVars,
          coordVars, smartVars>>

---------------------------------------------------------------------------
(* Bounds of the model *)

\* fixed-point resolution: integer units per EPSILON
UnitsPerEps == 4
\* largest number of loop triangles of a mesh handed to the material splitter
MaxTris == 2
\* largest number of loops inserted into one dedup dict
MaxLoops == 4
\* largest number of triangles in the records handed to the vertex-limit splitter
MaxLimitTris == 3

---------------------------------------------------------------------------
(* Numbers *)

Abs(a) == IF a < 0 THEN -a ELSE a

\* 1.0 in fixed-point units
One == 100000 * UnitsPerEps

\* Python's round(n / d) for d > 0: round half to even
RoundHalfEven(n, d) ==
    LET q == n \div d
        r == n % d
    IN  IF 2 * r < d THEN q
        ELSE IF 2 * r > d THEN q + 1
        ELSE IF q % 2 = 0 THEN q ELSE q + 1

\* CPython's hash of a small int: hash(-1) is -2, every other small int is itself
PyIntHash(n) == IF n = -1 THEN -2 ELSE n

---------------------------------------------------------------------------
(* Names are tuples of one-character strings *)

NoError == "none"
\* None where a name is expected (a name itself is never empty)
None == <<>>
\* no entry point called, nothing returned yet
NotCalled == "none"

\* name.startswith("__")
is_hidden_name(name) ==
    Len(name) >= 2 /\ name[1] = "_" /\ name[2] = "_"

---------------------------------------------------------------------------
(* Characters: code-point order, case folding, digits *)

Digits == <<"0", "1", "2", "3", "4", "5", "6", "7", "8", "9">>
UpperCase ==
    <<"A", "B", "C", "D", "E", "F", "G", "H", "I", "J", "K", "L", "M",
      "N", "O", "P", "Q", "R", "S", "T", "U", "V", "W", "X", "Y", "Z">>
LowerCase ==
    <<"a", "b", "c", "d", "e", "f", "g", "h", "i", "j", "k", "l", "m",
      "n", "o", "p", "q", "r", "s", "t", "u", "v", "w", "x", "y", "z">>

\* the characters names are made of, in code-point order
CodePointOrder == <<".">> \o Digits \o UpperCase \o <<"_">> \o LowerCase

Ord(c) == CHOOSE i \in 1..Len(CodePointOrder) : CodePointOrder[i] = c

IsDigit(c) == \E i \in 1..Len(Digits) : Digits[i] = c
IsUpper(c) == \E i \in 1..Len(UpperCase) : UpperCase[i] = c
IsLower(c) == \E i \in 1..Len(LowerCase) : LowerCase[i] = c

LowerChar(c) ==
    IF IsUpper(c) THEN LowerCase[CHOOSE i \in 1..Len(UpperCase) : UpperCase[i] = c]
    ELSE c

\* str.lower()
Lower(name) == [i \in 1..Len(name) |-> LowerChar(name[i])]

\* str < str: the first differing character decides, a proper prefix is smaller
RECURSIVE StrLess(_, _)
StrLess(a, b) ==
    IF b = <<>> THEN FALSE
    ELSE IF a = <<>> THEN TRUE
    ELSE IF Head(a) # Head(b) THEN Ord(Head(a)) < Ord(Head(b))
    ELSE StrLess(Tail(a), Tail(b))

StartsWith(name, prefix) ==
    Len(name) >= Len(prefix) /\ SubSeq(name, 1, Len(prefix)) = prefix

---------------------------------------------------------------------------
(* Coordinate transform *)

convert_vector3(v) == <<v[1], v[3], -v[2]>>

VecAdd(a, b) == <<a[1] + b[1], a[2] + b[2], a[3] + b[3]>>

\* transformation matrices are translations here, given by their vector:
\* Matrix() is the identity, inverted() negates, and convert_matrix converts
\* the translation (rotation and scale are the identity throughout)
Matrix == <<0, 0, 0>>
inverted(m) == <<-m[1], -m[2], -m[3]>>
convert_matrix(blender_matrix) == convert_vector3(blender_matrix)

---------------------------------------------------------------------------
(* UvVertex *)

EPSILON == UnitsPerEps

UvVertex(co, normal, uv, tangent) ==
    [co |-> co, normal |-> normal, uv |-> uv, tangent |-> tangent]

\* round(value * QUANT), QUANT = 1e5 = 1 / EPSILON
Quantize(value) == RoundHalfEven(value, UnitsPerEps)

\* UvVertex.__hash__: the tuple of the eight quantized components; the hash of a
\* tuple is taken to differ whenever the hashes of its elements differ
UvHash(v) ==
    <<PyIntHash(Quantize(v.co[1])), PyIntHash(Quantize(v.co[2])),
      PyIntHash(Quantize(v.co[3])),
      PyIntHash(Quantize(v.normal[1])), PyIntHash(Quantize(v.normal[2])),
      PyIntHash(Quantize(v.normal[3])),
      PyIntHash(Quantize(v.uv[1])), PyIntHash(Quantize(v.uv[2]))>>

ApproxEqual(a, b) == Abs(a - b) < EPSILON

\* UvVertex.__eq__: position, normal and uv within EPSILON; tangent not compared
UvEq(a, b) ==
    /\ ApproxEqual(a.co[1], b.co[1])
    /\ ApproxEqual(a.co[2], b.co[2])
    /\ ApproxEqual(a.co[3], b.co[3])
    /\ ApproxEqual(a.normal[1], b.normal[1])
    /\ ApproxEqual(a.normal[2], b.normal[2])
    /\ ApproxEqual(a.normal[3], b.normal[3])
    /\ ApproxEqual(a.uv[1], b.uv[1])
    /\ ApproxEqual(a.uv[2], b.uv[2])

\* Lookup of key v in a dict whose keys, in insertion order, are `keys`:
\* the position of the first key with the same hash that compares equal, or 0
DictFind(keys, v) ==
    LET hits == {i \in 1..Len(keys) : UvHash(keys[i]) = UvHash(v) /\ UvEq(keys[i], v)}
    IN  IF hits = {} THEN 0 ELSE CHOOSE i \in hits : \A j \in hits : i <= j

---------------------------------------------------------------------------
(* Sequence helpers *)

Min(a, b) == IF a < b THEN a ELSE b

RECURSIVE SetToSeqAsc(_)
\* the elements of a finite set of integers in ascending order (the order in
\* which CPython iterates a set of small non-negative ints)
SetToSeqAsc(S) ==
    IF S = {} THEN <<>>
    ELSE LET m == CHOOSE x \in S : \A y \in S : x <= y
         IN  <<m>> \o SetToSeqAsc(S \ {m})

RECURSIVE Flatten(_)
Flatten(ss) == IF ss = <<>> THEN <<>> ELSE Head(ss) \o Flatten(Tail(ss))

---------------------------------------------------------------------------
(* Mesh records *)

\* scaled-down stand-in of MAX_VERTICES_PER_MESH (65536 in utils/constants.py)
MAX_VERTICES_PER_MESH == 7

Mesh(material_id, verts, indices) ==
    [material_id |-> material_id, vertices |-> verts, indices |-> indices]

---------------------------------------------------------------------------
(* NodeWriter._split_object_by_materials *)

\* has_uvs after the calc_tangents attempt
HasUvs(o) == o.uv_layers /\ o.tangents_ok

\* NodeWriter._calculate_uvs for a material without an active texture node;
\* the caller has checked that the two dimensions are not zero
CalculateUvs(o, co) ==
    <<RoundHalfEven(co[1] * One, o.dimensions[1]),
      RoundHalfEven(co[2] * One, o.dimensions[2])>>

\* the UvVertex built for one loop of a triangle (matrix_world is a translation)
LoopVertex(o, loop) ==
    LET local_position == VecAdd(o.matrix_world, loop.co)
        uv == IF HasUvs(o) THEN <<loop.uv[1], -loop.uv[2]>>
              ELSE CalculateUvs(o, local_position)
        tangent == IF HasUvs(o) THEN convert_vector3(loop.tangent)
                   ELSE <<One, 0, 0>>
    IN  UvVertex(convert_vector3(local_position), convert_vector3(loop.normal),
                 uv, tangent)

\* mutant of InsertLoop: a merged loop replaces the entry it is merged into
InsertLoopKeepsLast(keys, looked_up, vertex) ==
    LET found == DictFind(keys, vertex)
    IN  IF found = 0
        THEN [vertices |-> Append(keys, vertex),
              face_indices |-> Append(looked_up, Len(keys))]
        ELSE [vertices |-> [keys EXCEPT ![found] = vertex],
              face_indices |-> Append(looked_up, found - 1)]

\* one loop of a triangle: if vertex not in vertices: vertices[vertex] =
\* len(vertices); then face_indices.append(vertices[vertex]).  `keys` are the
\* dict keys in insertion order (a key's value is its position - 1)
InsertLoop(keys, looked_up, vertex) ==
    LET found == DictFind(keys, vertex)
    IN  IF found = 0
        THEN [vertices |-> Append(keys, vertex),
              face_indices |-> Append(looked_up, Len(keys))]
        ELSE [vertices |-> keys, face_indices |-> Append(looked_up, found - 1)]

RECURSIVE InsertLoops(_, _, _)
\* the dedup map of one material group after all its loops
InsertLoops(loops, keys, looked_up) ==
    IF loops = <<>> THEN [vertices |-> keys, face_indices |-> looked_up]
    ELSE LET d == InsertLoop(keys, looked_up, Head(loops))
         IN  InsertLoops(Tail(loops), d.vertices, d.face_indices)

\* mutant of Winding: the loop order is kept
WindingKept(looked_up) == looked_up

\* indices.extend((face_indices[1], face_indices[2], face_indices[0])) per triangle
Winding(looked_up) ==
    [i \in 1..Len(looked_up) |->
        LET base == 3 * ((i - 1) \div 3)
            k == (i - 1) % 3
        IN  looked_up[base + ((k + 1) % 3) + 1]]

\* mutant of GroupTriangles: the material filter is dropped
GroupTrianglesUnfiltered(o, material_index) == o.loop_triangles

\* the triangles of one material slot, in mesh order
GroupTriangles(o, material_index) ==
    SelectSeq(o.loop_triangles, LAMBDA t : t.material_index = material_index)

\* the UvVertex of every loop of the group, triangle by triangle
GroupLoops(o, material_index) ==
    LET tris == GroupTriangles(o, material_index)
    IN  Flatten([k \in 1..Len(tris) |->
                    [j \in 1..3 |-> LoopVertex(o, tris[k].loops[j])]])

used_materials(o) ==
    {o.loop_triangles[i].material_index : i \in 1..Len(o.loop_triangles)}

\* the exception one material slot raises, or NoError
SlotError(o, positions, material_index) ==
    IF o.materials[material_index + 1] = None THEN "slot has no material assigned"
    ELSE IF is_hidden_name(o.materials[material_index + 1]) THEN "material is ignored but used"
    ELSE IF ~HasUvs(o) /\ (o.dimensions[1] = 0 \/ o.dimensions[2] = 0)
         THEN "ZeroDivisionError"
    ELSE IF o.materials[material_index + 1] \notin DOMAIN positions THEN "KeyError"
    ELSE NoError

BuildMesh(o, positions, material_index) ==
    LET d == InsertLoops(GroupLoops(o, material_index), <<>>, <<>>)
    IN  Mesh(positions[o.materials[material_index + 1]], d.vertices,
             Winding(d.face_indices))

RECURSIVE SplitSlots(_, _, _, _)
\* the loop over used_materials: stops at the first slot that raises
SplitSlots(o, positions, slots, meshes) ==
    IF slots = <<>> THEN [error |-> NoError, meshes |-> meshes]
    ELSE LET e == SlotError(o, positions, Head(slots))
         IN  IF e # NoError THEN [error |-> e, meshes |-> <<>>]
             ELSE SplitSlots(o, positions, Tail(slots),
                             Append(meshes, BuildMesh(o, positions, Head(slots))))

SplitObjectByMaterials(o, positions) ==
    IF o.materials = <<>>
    THEN [error |-> "object has no material assigned", meshes |-> <<>>]
    ELSE SplitSlots(o, positions, SetToSeqAsc(used_materials(o)), <<>>)

---------------------------------------------------------------------------
(* NodeWriter._extract_tree_mesh_data *)

\* the UvVertex built for one loop of a triangle of an instance-group member
TreeLoopVertex(o, loop) ==
    LET local_position == VecAdd(o.matrix_world, loop.co)
        uv == IF HasUvs(o) THEN <<loop.uv[1], -loop.uv[2]>> ELSE <<0, 0>>
        tangent == IF HasUvs(o) THEN convert_vector3(loop.tangent)
                   ELSE <<One, 0, 0>>
    IN  UvVertex(convert_vector3(local_position), convert_vector3(loop.normal),
                 uv, tangent)

TreeGroupLoops(o, material_index) ==
    LET tris == GroupTriangles(o, material_index)
    IN  Flatten([k \in 1..Len(tris) |->
                    [j \in 1..3 |-> TreeLoopVertex(o, tris[k].loops[j])]])

\* a used slot yields a tuple unless it is unassigned, its material is hidden or
\* its material has no id
TreeSlotKept(o, positions, material_index) ==
    /\ o.materials[material_index + 1] # None
    /\ ~is_hidden_name(o.materials[material_index + 1])
    /\ o.materials[material_index + 1] \in DOMAIN positions

TreeBuild(o, positions, material_index) ==
    LET d == InsertLoops(TreeGroupLoops(o, material_index), <<>>, <<>>)
    IN  Mesh(positions[o.materials[material_index + 1]], d.vertices,
             Winding(d.face_indices))

ExtractTreeMeshData(o, positions) ==
    IF o.materials = <<>> THEN <<>>
    ELSE LET kept == SelectSeq(SetToSeqAsc(used_materials(o)),
                               LAMBDA s : TreeSlotKept(o, positions, s))
         IN  [n \in 1..Len(kept) |-> TreeBuild(o, positions, kept[n])]

---------------------------------------------------------------------------
(* NodeWriter._split_meshes_for_vertex_limit *)

RECURSIVE MapFace(_, _, _)
\* the loop over one face: `mapping` holds the old vertex indices in the order
\* they were given new indices
MapFace(face, mapping, new_indices) ==
    IF face = <<>> THEN [mapping |-> mapping, new_indices |-> new_indices]
    ELSE LET face_index == Head(face)
             at == {p \in 1..Len(mapping) : mapping[p] = face_index}
         IN  IF at = {}
             THEN MapFace(Tail(face), Append(mapping, face_index),
                          Append(new_indices, Len(mapping)))
             ELSE MapFace(Tail(face), mapping,
                          Append(new_indices, (CHOOSE p \in at : TRUE) - 1))

RECURSIVE TakeChunkLate(_, _, _, _, _)
\* mutant of TakeChunk: the chunk is closed at limit, not at limit - 3
TakeChunkLate(indices, i, mapping, new_indices, limit) ==
    IF i > Len(indices)
    THEN [mapping |-> mapping, new_indices |-> new_indices, start_index |-> i]
    ELSE LET face == SubSeq(indices, i, Min(i + 2, Len(indices)))
             r == MapFace(face, mapping, new_indices)
         IN  IF Len(r.mapping) >= limit
             THEN [mapping |-> r.mapping, new_indices |-> r.new_indices,
                   start_index |-> i + 3]
             ELSE TakeChunkLate(indices, i + 3, r.mapping, r.new_indices, limit)

RECURSIVE TakeChunk(_, _, _, _, _)
\* the inner for loop from position i (1-based) of the index list
TakeChunk(indices, i, mapping, new_indices, limit) ==
    IF i > Len(indices)
    THEN [mapping |-> mapping, new_indices |-> new_indices, start_index |-> i]
    ELSE LET face == SubSeq(indices, i, Min(i + 2, Len(indices)))
             r == MapFace(face, mapping, new_indices)
         IN  IF Len(r.mapping) >= limit - 3
             THEN [mapping |-> r.mapping, new_indices |-> r.new_indices,
                   start_index |-> i + 3]
             ELSE TakeChunk(indices, i + 3, r.mapping, r.new_indices, limit)

RECURSIVE SplitOne(_, _, _)
\* the while loop over one mesh that exceeds the limit
SplitOne(mesh, start_index, limit) ==
    IF start_index > Len(mesh.indices) THEN <<>>
    ELSE LET c == TakeChunk(mesh.indices, start_index, <<>>, <<>>, limit)
             verts == [p \in 1..Len(c.mapping) |-> mesh.vertices[c.mapping[p] + 1]]
         IN  <<Mesh(mesh.material_id, verts, c.new_indices)>>
                 \o SplitOne(mesh, c.start_index, limit)

\* mutant of SplitMeshesForVertexLimit: the chunks of the records over the limit
\* come first, the records within the limit after them
SplitMeshesChunksFirst(meshes) ==
    LET limit == MAX_VERTICES_PER_MESH
    IN  Flatten([m \in 1..Len(meshes) |->
                    IF Len(meshes[m].vertices) > limit
                    THEN SplitOne(meshes[m], 1, limit)
                    ELSE <<>>])
        \o SelectSeq(meshes, LAMBDA mesh : Len(mesh.vertices) <= limit)

SplitMeshesForVertexLimit(meshes) ==
    LET limit == MAX_VERTICES_PER_MESH
    IN  Flatten([m \in 1..Len(meshes) |->
                    IF Len(meshes[m].vertices) > limit
                    THEN SplitOne(meshes[m], 1, limit)
                    ELSE <<meshes[m]>>])

---------------------------------------------------------------------------
(* MaterialWriter.material_positions: a dense id for every material referenced
   by a slot of a mesh object, in first-seen order *)

RECURSIVE Dedup(_, _)
Dedup(seq, acc) ==
    IF seq = <<>> THEN acc
    ELSE IF \E i \in 1..Len(acc) : acc[i] = Head(seq)
         THEN Dedup(Tail(seq), acc)
         ELSE Dedup(Tail(seq), Append(acc, Head(seq)))

MaterialPositions(objs) ==
    LET slots == Flatten([i \in 1..Len(objs) |->
                    IF objs[i].type = "MESH"
                    THEN SelectSeq(objs[i].materials, LAMBDA m : m # None)
                    ELSE <<>>])
        order == Dedup(slots, <<>>)
    IN  [n \in {order[i] : i \in 1..Len(order)} |->
            (CHOOSE i \in 1..Len(order) : order[i] = n) - 1]

---------------------------------------------------------------------------
(* NodeWriter._write_mesh *)

MESH_CHILD_COUNT == 0
DEFAULT_MATERIAL_ID == 0
NODE_CLASS_NODE == 1
NODE_CLASS_MESH == 2

\* the exception _write_mesh raises for a record, or NoError
WriteMeshError(mesh) ==
    IF Len(mesh.vertices) > MAX_VERTICES_PER_MESH
    THEN "Only MAX_VERTICES_PER_MESH vertices per mesh allowed"
    ELSE NoError

\* the Mesh node _write_mesh emits for a record
RECURSIVE Times(_, _)
\* the primitive writes of a loop that runs n times
Times(n, writes) == IF n = 0 THEN <<>> ELSE writes \o Times(n - 1, writes)

\* the primitive writes of _write_mesh for one record, in order, each as
\* (the write_* method called, what it is called with)
WriteMeshFields(mesh) ==
    << <<"uint", "class">>, <<"string", "name">>, <<"uint", "childCount">>,
       <<"bool", "active">>, <<"bool", "castShadows">>, <<"bool", "visible">>,
       <<"bool", "transparent">>, <<"uint", "len(vertices)">> >>
    \o Times(Len(mesh.vertices),
             << <<"vector3", "co">>, <<"vector3", "normal">>, <<"vector2", "uv">>,
                <<"vector3", "tangent">> >>)
    \o << <<"uint", "len(indices)">> >>
    \o Times(Len(mesh.indices), << <<"ushort", "index">> >>)
    \o << <<"uint", "material_id">>, <<"uint", "layer">>, <<"float", "lodIn">>,
          <<"float", "lodOut">>, <<"vector3", "sphere_center">>,
          <<"float", "sphere_radius">>, <<"bool", "renderable">> >>

\* what _write_mesh puts into the file for one record
MeshNode(name, mesh) ==
    [class |-> NODE_CLASS_MESH, name |-> name, childCount |-> MESH_CHILD_COUNT,
     vertexCount |-> Len(mesh.vertices), vertices |-> mesh.vertices,
     indexCount |-> Len(mesh.indices), indices |-> mesh.indices,
     material_id |-> mesh.material_id, fields |-> WriteMeshFields(mesh)]

---------------------------------------------------------------------------
(* Name conventions of NodeWriter *)

KSTREE_PREFIX ==
    <<"k", "s", "t", "r", "e", "e", "_", "g", "r", "o", "u", "p", "_">>

\* [A-Z0-9_] under re.IGNORECASE
IsWordChar(c) == IsUpper(c) \/ IsLower(c) \/ IsDigit(c) \/ c = "_"

\* where group 1 of KSTREE_GROUP_PATTERN ends in `rest`, the text after the
\* prefix: the position before an underscore that is followed by digits only up
\* to the end (there is at most one), or 0 when the pattern does not match
GroupNameEnd(rest) ==
    LET ends == {p \in 2..(Len(rest) - 1) :
                    /\ rest[p] = "_"
                    /\ \A i \in 1..(p - 1) : IsWordChar(rest[i])
                    /\ \A i \in (p + 1)..Len(rest) : IsDigit(rest[i])}
    IN  IF ends = {} THEN 0 ELSE (CHOOSE p \in ends : TRUE) - 1

\* group 1 of ^<prefix>([A-Z0-9_]+)_(\d+)$ matched ignoring case, or None;
\* `prefix` is given in lower case
GroupNameAfter(prefix, obj_name) ==
    IF ~(Len(obj_name) > Len(prefix)
         /\ Lower(SubSeq(obj_name, 1, Len(prefix))) = prefix)
    THEN None
    ELSE IF GroupNameEnd(SubSeq(obj_name, Len(prefix) + 1, Len(obj_name))) = 0
         THEN None
    ELSE SubSeq(obj_name, Len(prefix) + 1,
                Len(prefix) + GroupNameEnd(SubSeq(obj_name, Len(prefix) + 1,
                                                  Len(obj_name))))

\* NodeWriter._get_kstree_group_name: group 1 of KSTREE_GROUP_PATTERN, or None
get_kstree_group_name(obj_name) == GroupNameAfter(KSTREE_PREFIX, obj_name)

\* a name is `prefix`, then one or more digits ("digits"), one or more
\* characters ("any") or nothing ("none"), then `suffix`, and nothing else
MatchesParts(name, prefix, middle, suffix) ==
    /\ StartsWith(name, prefix)
    /\ Len(name) >= Len(prefix) + Len(suffix)
    /\ SubSeq(name, Len(name) - Len(suffix) + 1, Len(name)) = suffix
    /\ LET mid == SubSeq(name, Len(prefix) + 1, Len(name) - Len(suffix))
       IN  CASE middle = "none" -> mid = <<>>
             [] middle = "any" -> mid # <<>>
             [] middle = "digits" ->
                   mid # <<>> /\ \A i \in 1..Len(mid) : IsDigit(mid[i])

\* ASSETTO_CORSA_OBJECTS, each as (prefix, middle, suffix)
ASSETTO_CORSA_OBJECTS ==
    <<<< <<"A","C","_","S","T","A","R","T","_">>, "digits", <<>> >>,
      << <<"A","C","_","P","I","T","_">>, "digits", <<>> >>,
      << <<"A","C","_","T","I","M","E","_">>, "digits", <<"_","L">> >>,
      << <<"A","C","_","T","I","M","E","_">>, "digits", <<"_","R">> >>,
      << <<"A","C","_","H","O","T","L","A","P","_","S","T","A","R","T","_">>,
         "digits", <<>> >>,
      << <<"A","C","_","O","P","E","N","_","F","I","N","I","S","H","_","R">>,
         "none", <<>> >>,
      << <<"A","C","_","O","P","E","N","_","F","I","N","I","S","H","_","L">>,
         "none", <<>> >>,
      << <<"A","C","_","O","P","E","N","_","S","T","A","R","T","_","L">>,
         "none", <<>> >>,
      << <<"A","C","_","O","P","E","N","_","S","T","A","R","T","_","R">>,
         "none", <<>> >>,
      << <<"A","C","_","A","U","D","I","O","_">>, "any", <<>> >>,
      << <<"A","C","_","C","R","E","W","_">>, "digits", <<>> >> >>

\* NodeWriter._is_ac_object
is_ac_object(name) ==
    \E i \in 1..Len(ASSETTO_CORSA_OBJECTS) :
        MatchesParts(name, ASSETTO_CORSA_OBJECTS[i][1],
                     ASSETTO_CORSA_OBJECTS[i][2], ASSETTO_CORSA_OBJECTS[i][3])

---------------------------------------------------------------------------
(* The scene: blend_data.objects as a sequence, an object's parent as a position
   in it (0 for no parent) *)

\* utils.is_object_excluded_by_collection
is_object_excluded_by_collection(o) ==
    IF o.hide_viewport THEN TRUE
    ELSE IF o.hide_render THEN TRUE
    ELSE IF o.hide_get THEN TRUE
    ELSE IF o.users_collection = <<>> THEN FALSE
    ELSE ~\E c \in 1..Len(o.users_collection) :
            /\ ~o.users_collection[c].hide_viewport
            /\ o.users_collection[c].in_view_layer
            /\ ~o.users_collection[c].exclude

\* obj.children, in scene order
Children(objs, i) ==
    SelectSeq([j \in 1..Len(objs) |-> j], LAMBDA j : objs[j].parent = i)

\* the order of two sort keys: numbers by value, strings by code point
KeyLess(a, b, strings) == IF strings THEN StrLess(a, b) ELSE a < b

RECURSIVE InsertSorted(_, _, _, _)
\* list.sort is stable: x goes behind every element whose key is not larger
InsertSorted(sorted, x, key, strings) ==
    IF sorted = <<>> THEN <<x>>
    ELSE IF KeyLess(key[x], key[Head(sorted)], strings) THEN <<x>> \o sorted
    ELSE <<Head(sorted)>> \o InsertSorted(Tail(sorted), x, key, strings)

RECURSIVE StableSort(_, _, _)
\* seq sorted by key[element]
StableSort(seq, key, strings) ==
    IF seq = <<>> THEN <<>>
    ELSE InsertSorted(StableSort(SubSeq(seq, 1, Len(seq) - 1), key, strings),
                      seq[Len(seq)], key, strings)

---------------------------------------------------------------------------
(* NodeWriter._collect_and_group_objects *)

\* the objects the loop over blend_data.objects does not skip
TopLevel(objs) ==
    SelectSeq([j \in 1..Len(objs) |-> j],
              LAMBDA j : /\ objs[j].parent = 0
                         /\ ~is_hidden_name(objs[j].name)
                         /\ ~is_object_excluded_by_collection(objs[j]))

\* mutant of RegularObjects: the members of instance groups are kept
RegularObjectsWithMembers(objs) ==
    StableSort(TopLevel(objs),
               [j \in 1..Len(objs) |-> Len(Children(objs, j))], FALSE)

\* regular_objects after the sort by len(children)
RegularObjects(objs) ==
    StableSort(SelectSeq(TopLevel(objs),
                         LAMBDA j : get_kstree_group_name(objs[j].name) = None),
               [j \in 1..Len(objs) |-> Len(Children(objs, j))], FALSE)

\* mutant of KstreeGroups: the groups are walked in the order they were found
KstreeGroupsAsFound(objs) ==
    LET members == SelectSeq(TopLevel(objs),
                       LAMBDA j : get_kstree_group_name(objs[j].name) # None)
        key(j) == Lower(get_kstree_group_name(objs[j].name))
        keys == Dedup([n \in 1..Len(members) |-> key(members[n])], <<>>)
    IN  [g \in 1..Len(keys) |->
            LET of_key == SelectSeq(members, LAMBDA j : key(j) = keys[g])
            IN  [key |-> keys[g],
                 name |-> get_kstree_group_name(objs[Head(of_key)].name),
                 objects |-> StableSort(of_key,
                                [j \in 1..Len(objs) |-> objs[j].name], TRUE)]]

\* kstree_groups as the list write() walks: one entry per lower-cased group
\* name, in ascending key order, with the name in the case of the first object
\* found and the objects sorted by name
KstreeGroups(objs) ==
    LET members == SelectSeq(TopLevel(objs),
                       LAMBDA j : get_kstree_group_name(objs[j].name) # None)
        key(j) == Lower(get_kstree_group_name(objs[j].name))
        found == Dedup([n \in 1..Len(members) |-> key(members[n])], <<>>)
        keys == StableSort(found, [k \in {found[n] : n \in 1..Len(found)} |-> k], TRUE)
    IN  [g \in 1..Len(keys) |->
            LET of_key == SelectSeq(members, LAMBDA j : key(j) = keys[g])
            IN  [key |-> keys[g],
                 name |-> get_kstree_group_name(objs[Head(of_key)].name),
                 objects |-> StableSort(of_key,
                                [j \in 1..Len(objs) |-> objs[j].name], TRUE)]]

---------------------------------------------------------------------------
(* What NodeWriter has done so far: the nodes written to the file, the warnings
   appended, and the exception that ended it (NoError while it runs) *)

Stream(nodes, warns, e) == [written |-> nodes, warnings |-> warns, error |-> e]

Put(st, node) == [st EXCEPT !.written = Append(@, node)]
Warn(st, warning) == [st EXCEPT !.warnings = Append(@, warning)]
Raise(st, e) == [st EXCEPT !.error = e]

\* _write_base_node_data
BaseNode(name, childCount, transform) ==
    [class |-> NODE_CLASS_NODE, name |-> name, childCount |-> childCount,
     transform |-> transform]

\* obj.matrix_local: the world matrix of the object seen from its parent
matrix_local(objs, i) ==
    IF objs[i].parent = 0 THEN objs[i].matrix_world
    ELSE VecAdd(inverted(objs[objs[i].parent].matrix_world), objs[i].matrix_world)

\* write_ushort of the primitive writer: an index is stored as an unsigned
\* 16-bit integer, so the largest one that can be written is the vertex limit - 1
WriteUshortError(indices) ==
    IF \E i \in 1..Len(indices) : indices[i] > MAX_VERTICES_PER_MESH - 1
    THEN "primitive write failed: index out of the 16-bit range"
    ELSE NoError

---------------------------------------------------------------------------
(* NodeWriter._write_kstree_group *)

\* NodeWriter._calculate_tree_normal for a vertex whose normal has no horizontal
\* part (orig_horiz_len <= 0.001): the result is straight up whatever the height.
\* The scenes of this model only hold such normals.
calculate_tree_normal(co, normal, mesh_center_y) ==
    CASE normal[1] = 0 /\ normal[3] = 0 -> <<0, One, 0>>

\* the (verts, indices, mat_id) tuples of all mesh objects of the group, in
\* member order
GroupMeshData(objs, members, positions) ==
    LET mesh_objects == SelectSeq(members, LAMBDA j : objs[j].type = "MESH")
    IN  Flatten([n \in 1..Len(mesh_objects) |->
                    ExtractTreeMeshData(objs[mesh_objects[n]], positions)])

\* the first pass: mesh_center_y = sum(all_positions_y) / len(all_positions_y)
MeshCenterY(data) ==
    LET ys == Flatten([n \in 1..Len(data) |->
                  [k \in 1..Len(data[n].vertices) |-> data[n].vertices[k].co[2]]])
        sum[k \in 0..Len(ys)] == IF k = 0 THEN 0 ELSE sum[k - 1] + ys[k]
    IN  IF ys = <<>> THEN 0 ELSE RoundHalfEven(sum[Len(ys)], Len(ys))

RECURSIVE MergeTreeData(_, _, _, _)
\* mutant of MergeTreeData: only the first tuple is kept
MergeFirstOnly(data, all_vertices, all_indices, mesh_center_y) ==
    IF data = <<>> THEN [vertices |-> all_vertices, indices |-> all_indices]
    ELSE [vertices |-> Head(data).vertices, indices |-> Head(data).indices]

RECURSIVE MergeWithoutOffset(_, _, _, _)
\* mutant of MergeTreeData: the indices are appended as they are
MergeWithoutOffset(data, all_vertices, all_indices, mesh_center_y) ==
    IF data = <<>> THEN [vertices |-> all_vertices, indices |-> all_indices]
    ELSE LET verts == Head(data).vertices
             new == [k \in 1..Len(verts) |->
                        UvVertex(verts[k].co,
                                 calculate_tree_normal(verts[k].co, verts[k].normal,
                                                       mesh_center_y),
                                 verts[k].uv, verts[k].tangent)]
         IN  MergeWithoutOffset(Tail(data), all_vertices \o new,
                                all_indices \o Head(data).indices, mesh_center_y)

\* the second pass: vertices appended with the tree normal, indices offset by
\* the vertices merged before
MergeTreeData(data, all_vertices, all_indices, mesh_center_y) ==
    IF data = <<>> THEN [vertices |-> all_vertices, indices |-> all_indices]
    ELSE LET verts == Head(data).vertices
             index_offset == Len(all_vertices)
             new == [k \in 1..Len(verts) |->
                        UvVertex(verts[k].co,
                                 calculate_tree_normal(verts[k].co, verts[k].normal,
                                                       mesh_center_y),
                                 verts[k].uv, verts[k].tangent)]
             shifted == [k \in 1..Len(Head(data).indices) |->
                            Head(data).indices[k] + index_offset]
         IN  MergeTreeData(Tail(data), all_vertices \o new, all_indices \o shifted,
                           mesh_center_y)

\* mutant of WriteKstreeGroupFields: the material id goes before the vertices
WriteKstreeGroupFieldsMaterialFirst(all_vertices, all_indices) ==
    << <<"uint", "class">>, <<"string", "name">>, <<"uint", "childCount">>,
       <<"bool", "active">>, <<"bool", "castShadows">>, <<"bool", "visible">>,
       <<"bool", "transparent">>, <<"uint", "material_id">>,
       <<"uint", "len(vertices)">> >>
    \o Times(Len(all_vertices),
             << <<"vector3", "co">>, <<"vector3", "normal">>, <<"vector2", "uv">>,
                <<"vector3", "tangent">> >>)
    \o << <<"uint", "len(indices)">> >>
    \o Times(Len(all_indices), << <<"ushort", "index">> >>)
    \o << <<"uint", "layer">>, <<"float", "lodIn">>,
          <<"float", "lodOut">>, <<"vector3", "sphere_center">>,
          <<"float", "sphere_radius">>, <<"bool", "renderable">> >>

\* the primitive writes of _write_kstree_group from _write_node_class("Mesh")
\* on, in order; with and without node_properties the same methods are called
WriteKstreeGroupFields(all_vertices, all_indices) ==
    << <<"uint", "class">>, <<"string", "name">>, <<"uint", "childCount">>,
       <<"bool", "active">> >>
    \o << <<"bool", "castShadows">>, <<"bool", "visible">>,
          <<"bool", "transparent">> >>
    \o << <<"uint", "len(vertices)">> >>
    \o Times(Len(all_vertices),
             << <<"vector3", "co">>, <<"vector3", "normal">>, <<"vector2", "uv">>,
                <<"vector3", "tangent">> >>)
    \o << <<"uint", "len(indices)">> >>
    \o Times(Len(all_indices), << <<"ushort", "index">> >>)
    \o << <<"uint", "material_id">> >>
    \o << <<"uint", "layer">>, <<"float", "lodIn">>, <<"float", "lodOut">> >>
    \o << <<"vector3", "sphere_center">>, <<"float", "sphere_radius">> >>
    \o << <<"bool", "renderable">> >>

\* the Mesh node of a group: named by the group, with the material of the first
\* tuple (DEFAULT_MATERIAL_ID when there is none) and no children
GroupNode(group_name, data, merged) ==
    [class |-> NODE_CLASS_MESH, name |-> group_name,
     childCount |-> MESH_CHILD_COUNT,
     vertexCount |-> Len(merged.vertices), vertices |-> merged.vertices,
     indexCount |-> Len(merged.indices), indices |-> merged.indices,
     material_id |-> IF data = <<>> THEN DEFAULT_MATERIAL_ID
                     ELSE Head(data).material_id,
     fields |-> WriteKstreeGroupFields(merged.vertices, merged.indices)]

\* from "if not all_vertices: return" on: the warning for a group over the
\* vertex limit, then the node, which cannot be written when an index does not
\* fit, with a warning when no tuple gave a material
WriteMerged(group_name, data, merged, st) ==
    IF merged.vertices = <<>> THEN st
    ELSE IF WriteUshortError(merged.indices) # NoError
         THEN Raise(IF Len(merged.vertices) > MAX_VERTICES_PER_MESH
                    THEN Warn(st, <<"group exceeds the vertex limit", group_name>>)
                    ELSE st,
                    WriteUshortError(merged.indices))
    ELSE IF Len(merged.vertices) > MAX_VERTICES_PER_MESH
         THEN Put(Warn(st, <<"group exceeds the vertex limit", group_name>>),
                  GroupNode(group_name, data, merged))
    ELSE IF data = <<>>
         THEN Put(Warn(st, <<"No material for KSTREE group", group_name>>),
                  GroupNode(group_name, data, merged))
    ELSE Put(st, GroupNode(group_name, data, merged))

\* both passes over the tuples of the group
MergeGroup(group_name, data, st) ==
    WriteMerged(group_name, data, MergeTreeData(data, <<>>, <<>>, MeshCenterY(data)), st)

WriteKstreeGroup(objs, group, positions, st) ==
    MergeGroup(group.name, GroupMeshData(objs, group.objects, positions), st)

---------------------------------------------------------------------------
(* NodeWriter._write_object and the writers it calls *)

RECURSIVE any_child_is_mesh(_, _)
any_child_is_mesh(objs, i) ==
    \E n \in 1..Len(Children(objs, i)) :
        LET child == Children(objs, i)[n]
        IN  objs[child].type \in {"MESH", "CURVE"} \/ any_child_is_mesh(objs, child)

\* _write_base_node for an object: the warning for an unknown logical object,
\* then a Node whose child count is the number of children that are neither
\* hidden by name nor excluded
WriteBaseNode(objs, i, st) ==
    Put(IF ~is_ac_object(objs[i].name) /\ ~any_child_is_mesh(objs, i)
        THEN Warn(st, <<"Unknown logical object", objs[i].name>>)
        ELSE st,
        BaseNode(objs[i].name,
                 Cardinality({j \in 1..Len(objs) :
                    /\ objs[j].parent = i
                    /\ ~is_hidden_name(objs[j].name)
                    /\ ~is_object_excluded_by_collection(objs[j])}),
                 convert_matrix(matrix_local(objs, i))))

RECURSIVE WriteMeshes(_, _, _)
\* for mesh in divided_meshes: self._write_mesh(obj, mesh, node_properties)
WriteMeshes(name, meshes, st) ==
    IF meshes = <<>> THEN st
    ELSE IF WriteMeshError(Head(meshes)) # NoError
         THEN Raise(st, WriteMeshError(Head(meshes)))
    ELSE WriteMeshes(name, Tail(meshes), Put(st, MeshNode(name, Head(meshes))))

\* mutant of WriteRecords: the container is written for every mesh object
WriteRecordsContained(objs, o, records, st) ==
    WriteMeshes(o.name, records,
                Put(st, BaseNode(o.name, Len(records),
                                 IF o.parent # 0
                                 THEN convert_matrix(inverted(objs[o.parent].matrix_world))
                                 ELSE Matrix)))

\* the container Node and the Mesh nodes of an object's records: the container
\* is written when the object has a parent or yields more than one record, with
\* the inverse of the parent's world matrix as its transform
WriteRecords(objs, o, records, st) ==
    WriteMeshes(o.name, records,
                IF o.parent # 0 \/ Len(records) > 1
                THEN Put(st, BaseNode(o.name, Len(records),
                                      IF o.parent # 0
                                      THEN convert_matrix(
                                               inverted(objs[o.parent].matrix_world))
                                      ELSE Matrix))
                ELSE st)

\* mutant of WriteSplit: a mesh that cannot be split is left out of the file
WriteSplitLenient(objs, o, split, st) ==
    IF split.error # NoError THEN st
    ELSE WriteRecords(objs, o, SplitMeshesForVertexLimit(split.meshes), st)

\* _write_mesh_node after _split_object_by_materials has returned or raised
WriteSplit(objs, o, split, st) ==
    IF split.error # NoError THEN Raise(st, split.error)
    ELSE WriteRecords(objs, o, SplitMeshesForVertexLimit(split.meshes), st)

\* _write_mesh_node
WriteMeshNode(objs, i, positions, st) ==
    WriteSplit(objs, objs[i], SplitObjectByMaterials(objs[i], positions), st)

RECURSIVE WriteObject(_, _, _, _)
RECURSIVE WriteChildren(_, _, _, _)
RECURSIVE WriteChildrenAll(_, _, _, _)

\* mutant of WriteChildren: excluded children are written too
WriteChildrenAll(objs, children, positions, st) ==
    IF children = <<>> \/ st.error # NoError THEN st
    ELSE WriteChildrenAll(objs, Tail(children), positions,
            WriteObject(objs, Head(children), positions, st))

\* for child in obj.children: excluded children are passed over, and the loop
\* ends at the first exception
WriteChildren(objs, children, positions, st) ==
    IF children = <<>> \/ st.error # NoError THEN st
    ELSE WriteChildren(objs, Tail(children), positions,
            IF is_object_excluded_by_collection(objs[Head(children)]) THEN st
            ELSE WriteObject(objs, Head(children), positions, st))

WriteObject(objs, i, positions, st) ==
    IF is_hidden_name(objs[i].name) THEN st
    ELSE IF objs[i].type = "MESH"
         THEN IF Children(objs, i) # <<>>
              THEN Raise(st, "A mesh cannot contain children")
              ELSE WriteMeshNode(objs, i, positions, st)
    ELSE WriteChildren(objs, Children(objs, i), positions, WriteBaseNode(objs, i, st))

---------------------------------------------------------------------------
(* Values of the variables an operation does not use *)

NoScene ==
    /\ objects = <<>>
    /\ regular_objects = <<>>
    /\ kstree_groups = <<>>
    /\ warnings = <<>>

NoVector ==
    /\ vec = <<>>
    /\ there = <<>>
    /\ back = <<>>
    /\ exported = <<>>

\* Smart Export is not running
NoSmartExport ==
    /\ current_file = "working file"
    /\ export_copy = FALSE

NoTextures ==
    /\ texconv = "absent"
    /\ texconv_calls = <<>>
    /\ available_textures = <<>>
    /\ texture_positions = <<>>
    /\ processed_textures = <<>>
    /\ texture_name_mapping = <<>>
    /\ texture_section = <<>>

NoFile ==
    /\ entry = NotCalled
    /\ existing = FALSE
    /\ dest = "absent"
    /\ tmp = "absent"
    /\ sections = <<>>
    /\ renamed_objects = <<>>
    /\ names_at_call = <<>>
    /\ status = NotCalled
    /\ NoTextures
    /\ previous_output = <<>>
    /\ NoVector
    /\ NoSmartExport

---------------------------------------------------------------------------
(* The dedup dict of one material group, one loop at a time *)

Far == 10 * UnitsPerEps

\* UvVertex values in target space: positions on the x axis that fall in one
\* quantization cell (0 and 1), that are within EPSILON across a cell border
\* (1 and 3, 0 and 3, -3 and -6) or far apart; two tangents; two uvs
VertexAt(x, v, t) == UvVertex(<<x, 0, 0>>, <<0, One, 0>>, <<0, v>>, <<t, 0, 0>>)

VertexPool ==
    {VertexAt(x, 0, One) : x \in {0, 1, 3, Far, -3, -6}}
        \cup {VertexAt(0, 0, -One), VertexAt(0, Far, One)}

RECURSIVE SeqsUpTo(_, _)
\* all sequences over S of length 1..n
SeqsUpTo(S, n) ==
    IF n = 0 THEN {}
    ELSE LET shorter == SeqsUpTo(S, n - 1)
         IN  {<<x>> : x \in S} \cup {Append(s, x) : s \in shorter, x \in S}

NoObject == [name |-> <<>>, type |-> "EMPTY"]

InitDedup ==
    /\ pc = "insert"
    /\ group_loops \in SeqsUpTo(VertexPool, MaxLoops)
    /\ vertices = <<>>
    /\ face_indices = <<>>
    /\ error = NoError
    /\ obj = NoObject
    /\ material_positions = <<>>
    /\ divided_meshes = <<>>
    /\ limit_meshes = <<>>
    /\ mesh_data = <<>>
    /\ written = <<>>
    /\ NoScene
    /\ NoFile

\* the body of `for loop_index in triangle.loops` for the next loop
InsertNextLoop ==
    /\ pc = "insert"
    /\ Len(face_indices) < Len(group_loops)
    /\ LET d == InsertLoop(vertices, face_indices, group_loops[Len(face_indices) + 1])
       IN  /\ vertices' = d.vertices
           /\ face_indices' = d.face_indices
    /\ UNCHANGED <<pc, error, group_loops, meshVars, sceneVars, fileVars,
                   textureVars, runVars, coordVars, smartVars>>

NextDedup == InsertNextLoop

SpecDedup == InitDedup /\ [][NextDedup]_vars

---------------------------------------------------------------------------
(* Claims about UvVertex and the dedup dict (SpecDedup) *)

\* loops already inserted into the dict
Inserted == 1..Len(face_indices)

\* identical position, normal and uv
ExactDuplicates(a, b) == a.co = b.co /\ a.normal = b.normal /\ a.uv = b.uv

\* the first loop of the group that is an exact duplicate of loop i
FirstDuplicate(i) ==
    CHOOSE k \in 1..i : /\ ExactDuplicates(group_loops[k], group_loops[i])
                        /\ \A m \in 1..(k - 1) :
                              ~ExactDuplicates(group_loops[m], group_loops[i])

\* the first loop of the group that was translated to the same entry as loop i
FirstTranslated(i) ==
    CHOOSE k \in 1..i : /\ face_indices[k] = face_indices[i]
                        /\ \A m \in 1..(k - 1) : face_indices[m] # face_indices[i]

\* C4: any two UvVertex values that compare equal have the same hash
C4_EqualVerticesHashEqual ==
    \A i, j \in Inserted :
        UvEq(group_loops[i], group_loops[j])
            => UvHash(group_loops[i]) = UvHash(group_loops[j])

\* C5: the vertex list of a record is unique under the deduplication rule: no
\* two entries have position, normal and uv all within EPSILON of each other
C5_VertexListUnique ==
    \A i, j \in 1..Len(vertices) :
        i # j => ~UvEq(vertices[i], vertices[j])

---------------------------------------------------------------------------
(* Inputs of the mesh pipeline *)

MatRoad == <<"r", "o", "a", "d">>
MatGrass == <<"g", "r", "a", "s", "s">>
MatHidden == <<"_", "_", "t", "m", "p">>

\* loop data in the host's Z-up space
LoopAt(x, t) ==
    [co |-> <<x, 0, 0>>, normal |-> <<0, 0, One>>, uv |-> <<0, 0>>,
     tangent |-> <<0, t, 0>>]

LoopPool == {LoopAt(0, One), LoopAt(Far, One), LoopAt(2 * Far, One)}

Triangles ==
    [material_index : {0, 1}, loops : [1..3 -> LoopPool]]

SplitObjects ==
    {[name |-> <<"r", "o", "a", "d">>, type |-> "MESH",
      materials |-> mats, uv_layers |-> TRUE, tangents_ok |-> TRUE,
      dimensions |-> <<2 * Far, 0, 0>>, matrix_world |-> <<0, 0, 0>>,
      loop_triangles |-> tris] :
        mats \in {<<MatRoad, MatGrass>>, <<MatRoad, MatRoad>>, <<MatGrass, None>>},
        tris \in SeqsUpTo(Triangles, MaxTris)}

---------------------------------------------------------------------------
(* The mesh pipeline of _write_mesh_node, one object at a time *)

InitSplit ==
    /\ pc = "split"
    /\ obj \in SplitObjects
    /\ material_positions = MaterialPositions(<<obj>>)
    /\ divided_meshes = <<>>
    /\ limit_meshes = <<>>
    /\ mesh_data = <<>>
    /\ written = <<>>
    /\ error = NoError
    /\ group_loops = <<>>
    /\ vertices = <<>>
    /\ face_indices = <<>>
    /\ NoScene
    /\ NoFile

\* divided_meshes = self._split_object_by_materials(obj)
SplitObject ==
    /\ pc = "split"
    /\ LET r == SplitObjectByMaterials(obj, material_positions)
       IN  /\ error' = r.error
           /\ divided_meshes' = r.meshes
           /\ pc' = IF r.error = NoError THEN "limit" ELSE "failed"
    /\ UNCHANGED <<obj, material_positions, limit_meshes, mesh_data, written,
                   dedupVars, textureVars, runVars, coordVars, smartVars, sceneVars,
                   fileVars>>

\* divided_meshes = self._split_meshes_for_vertex_limit(divided_meshes)
LimitSplit ==
    /\ pc = "limit"
    /\ limit_meshes' = SplitMeshesForVertexLimit(divided_meshes)
    /\ pc' = "write"
    /\ UNCHANGED <<obj, material_positions, divided_meshes, mesh_data, written, error,
                   dedupVars, textureVars, runVars, coordVars, smartVars, sceneVars,
                   fileVars>>

\* for mesh in divided_meshes: self._write_mesh(obj, mesh, node_properties)
WriteMesh ==
    /\ pc = "write"
    /\ IF Len(written) = Len(limit_meshes)
       THEN pc' = "done" /\ UNCHANGED <<written, error>>
       ELSE LET mesh == limit_meshes[Len(written) + 1]
            IN  IF WriteMeshError(mesh) # NoError
                THEN pc' = "failed" /\ error' = WriteMeshError(mesh)
                     /\ UNCHANGED written
                ELSE pc' = "write" /\ written' = Append(written, MeshNode(obj.name, mesh))
                     /\ UNCHANGED error
    /\ UNCHANGED <<obj, material_positions, divided_meshes, limit_meshes, mesh_data,
                   dedupVars, textureVars, runVars, coordVars, smartVars, sceneVars,
                   fileVars>>

\* mesh_data = self._extract_tree_mesh_data(obj), for a member of an instance group
ExtractTree ==
    /\ pc = "split"
    /\ mesh_data' = ExtractTreeMeshData(obj, material_positions)
    /\ pc' = "merged"
    /\ UNCHANGED <<obj, material_positions, divided_meshes, limit_meshes, written,
                   error, dedupVars, textureVars, runVars, coordVars, smartVars,
                   sceneVars, fileVars>>

NextSplit == SplitObject \/ ExtractTree \/ LimitSplit \/ WriteMesh

SpecSplit == InitSplit /\ [][NextSplit]_vars

---------------------------------------------------------------------------
(* The vertex-limit splitter on the records the material splitter can return *)

MaxOf(seq) ==
    IF seq = <<>> THEN -1
    ELSE CHOOSE x \in {seq[i] : i \in 1..Len(seq)} : \A i \in 1..Len(seq) : seq[i] <= x

RECURSIVE DenseLists(_, _)
\* the face_indices lists of n loops a dedup dict can produce, with at least
\* `least` different values: every value is one seen before or the next unused
\* one
DenseLists(n, least) ==
    IF n = 0 THEN (IF least <= 0 THEN {<<>>} ELSE {})
    ELSE UNION {{Append(f, k) : k \in {j \in 0..(MaxOf(f) + 1) :
                                         j + 1 >= least \/ MaxOf(f) + 1 >= least}} :
                   f \in DenseLists(n - 1, least - 1)}

\* the records of `tris` triangles over at least `least` distinct vertices
RecordsOf(tris, material_id, least) ==
    {Mesh(material_id,
          [i \in 1..(MaxOf(f) + 1) |-> VertexAt(i * Far, 0, One)],
          Winding(f)) : f \in DenseLists(3 * tris, least)}

\* every record of fewer than MaxLimitTris triangles, and the records of
\* MaxLimitTris triangles that exceed the limit
LimitRecords ==
    UNION {RecordsOf(t, 0, 0) : t \in 1..(MaxLimitTris - 1)}
        \cup RecordsOf(MaxLimitTris, 0, MAX_VERTICES_PER_MESH + 1)

\* one record, or one record next to a single-triangle record of another material
LimitInputs ==
    {<<r>> : r \in LimitRecords}
        \cup {<<r, q>> : r \in LimitRecords, q \in RecordsOf(1, 1, 0)}
        \cup {<<q, r>> : r \in LimitRecords, q \in RecordsOf(1, 1, 0)}

InitLimit ==
    /\ pc = "limit"
    /\ obj = [name |-> <<"r", "o", "a", "d">>, type |-> "MESH"]
    /\ material_positions = <<>>
    /\ divided_meshes \in LimitInputs
    /\ limit_meshes = <<>>
    /\ mesh_data = <<>>
    /\ written = <<>>
    /\ error = NoError
    /\ group_loops = <<>>
    /\ vertices = <<>>
    /\ face_indices = <<>>
    /\ NoScene
    /\ NoFile

NextLimit == LimitSplit \/ WriteMesh

SpecLimit == InitLimit /\ [][NextLimit]_vars

---------------------------------------------------------------------------
(* Claims about the vertex-limit splitter (SpecLimit) *)

\* every index of the record refers to one of its vertices, three per triangle
WellFormed(record) ==
    /\ Len(record.indices) % 3 = 0
    /\ \A i \in 1..Len(record.indices) :
          record.indices[i] \in 0..(Len(record.vertices) - 1)

\* the triangles of a list of records as vertex data, in order
ResolvedTriangles(meshes) ==
    Flatten([m \in 1..Len(meshes) |->
        [k \in 1..(Len(meshes[m].indices) \div 3) |->
            <<meshes[m].material_id,
              meshes[m].vertices[meshes[m].indices[3 * k - 2] + 1],
              meshes[m].vertices[meshes[m].indices[3 * k - 1] + 1],
              meshes[m].vertices[meshes[m].indices[3 * k] + 1]>>]])

LimitReturned == pc \in {"write", "done", "failed"}

\* C2: every record returned by _split_meshes_for_vertex_limit has at most
\* MAX_VERTICES_PER_MESH vertices, every input triangle is whole in one returned
\* record, and _write_mesh never raises its vertex-limit exception
C2_ChunksWithinLimitAndTrianglesWhole ==
    LimitReturned =>
        /\ \A m \in 1..Len(limit_meshes) :
              /\ Len(limit_meshes[m].vertices) <= MAX_VERTICES_PER_MESH
              /\ WellFormed(limit_meshes[m])
        /\ (\A m \in 1..Len(limit_meshes) : WellFormed(limit_meshes[m]))
              => ResolvedTriangles(limit_meshes) = ResolvedTriangles(divided_meshes)
        /\ error = NoError

\* C2 witness: a record over the limit was split into chunks, one of them made
\* of two whole triangles, and all the chunks were written
C2_Witness ==
    /\ pc = "done"
    /\ \E m \in 1..Len(divided_meshes) :
          Len(divided_meshes[m].vertices) > MAX_VERTICES_PER_MESH
    /\ Len(limit_meshes) > Len(divided_meshes)
    /\ \E m \in 1..Len(limit_meshes) :
          /\ Len(limit_meshes[m].indices) = 6
          /\ Len(limit_meshes[m].vertices) > 3
    /\ Len(written) = Len(limit_meshes)

---------------------------------------------------------------------------
(* Claims about the material splitter (SpecSplit) *)

\* the record's entries for its k-th triangle are the triangle's three loop
\* vertices, starting with loop `first` and going round
TriangleAt(o, record, k, tri, first) ==
    \A c \in 0..2 :
        UvEq(record.vertices[record.indices[3 * (k - 1) + c + 1] + 1],
             LoopVertex(o, tri.loops[((first - 1 + c) % 3) + 1]))

\* the record holds exactly the triangles of the slot, each once, in mesh order
RecordOfSlot(o, record, material_index) ==
    LET tris == GroupTriangles(o, material_index)
    IN  /\ Len(record.indices) = 3 * Len(tris)
        /\ \A k \in 1..Len(tris) :
              \E first \in 1..3 : TriangleAt(o, record, k, tris[k], first)

SplitReturned == pc \in {"limit", "write", "done"}

\* C3: the records returned by _split_object_by_materials hold every triangle
\* exactly once: one record per used slot, holding the triangles of that slot and
\* no other, with the material id of the slot's material
C3_EveryTriangleOnceByMaterial ==
    SplitReturned =>
        LET slots == SetToSeqAsc(used_materials(obj))
        IN  /\ Len(divided_meshes) = Len(slots)
            /\ \A n \in 1..Len(slots) :
                  /\ RecordOfSlot(obj, divided_meshes[n], slots[n])
                  /\ divided_meshes[n].material_id
                        = material_positions[obj.materials[slots[n] + 1]]
            /\ Len(Flatten([n \in 1..Len(divided_meshes) |->
                               divided_meshes[n].indices]))
                  = 3 * Len(obj.loop_triangles)

\* C3 witness: a mesh with triangles in two slots was split into two records
C3_Witness ==
    /\ SplitReturned
    /\ Cardinality(used_materials(obj)) = 2
    /\ Len(divided_meshes) = 2
    /\ divided_meshes[1].material_id # divided_meshes[2].material_id

\* C7: for every source triangle with loop order (A, B, C) the record's index
\* triple refers to the vertices of B, C, A in that order, in the ordinary
\* splitter and in the instance-group extractor
C7_WindingRotatedByOne ==
    /\ SplitReturned =>
          LET slots == SetToSeqAsc(used_materials(obj))
          IN  \A n \in 1..Len(divided_meshes) :
                 LET tris == GroupTriangles(obj, slots[n])
                 IN  /\ Len(divided_meshes[n].indices) = 3 * Len(tris)
                     /\ \A k \in 1..Len(tris) :
                           TriangleAt(obj, divided_meshes[n], k, tris[k], 2)
    /\ pc = "merged" =>
          \A n \in 1..Len(mesh_data) :
             \E s \in used_materials(obj) :
                LET tris == GroupTriangles(obj, s)
                IN  /\ Len(mesh_data[n].indices) = 3 * Len(tris)
                    /\ \A k \in 1..Len(tris) :
                          TriangleAt(obj, mesh_data[n], k, tris[k], 2)

\* a record whose first triangle has three different vertices
ProperTriangle(record) ==
    /\ Len(record.indices) >= 3
    /\ Cardinality({record.indices[1], record.indices[2], record.indices[3]}) = 3

\* C7 witness: a triangle with three different vertices was indexed
C7_Witness ==
    \/ SplitReturned /\ \E n \in 1..Len(divided_meshes) : ProperTriangle(divided_meshes[n])
    \/ pc = "merged" /\ \E n \in 1..Len(mesh_data) : ProperTriangle(mesh_data[n])

---------------------------------------------------------------------------
(* Scenes *)

\* the largest number of objects in a scene
MaxObjects == 2

Visible ==
    [hide_viewport |-> FALSE, hide_render |-> FALSE, hide_get |-> FALSE,
     users_collection |->
        <<[hide_viewport |-> FALSE, in_view_layer |-> TRUE, exclude |-> FALSE]>>]

InExcludedCollection ==
    [hide_viewport |-> FALSE, hide_render |-> FALSE, hide_get |-> FALSE,
     users_collection |->
        <<[hide_viewport |-> FALSE, in_view_layer |-> TRUE, exclude |-> TRUE]>>]

\* hidden through the object's own viewport flag
HiddenInViewport ==
    [hide_viewport |-> TRUE, hide_render |-> FALSE, hide_get |-> FALSE,
     users_collection |->
        <<[hide_viewport |-> FALSE, in_view_layer |-> TRUE, exclude |-> FALSE]>>]

\* a triangle over three far-apart points, and one that uses a point twice
Tri(material_index) ==
    [material_index |-> material_index,
     loops |-> <<LoopAt(0, One), LoopAt(Far, One), LoopAt(2 * Far, One)>>]
Sliver(material_index) ==
    [material_index |-> material_index,
     loops |-> <<LoopAt(0, One), LoopAt(Far, One), LoopAt(0, One)>>]

\* a triangle over three far-apart points of its own, from the n-th point on
TriFrom(n, material_index) ==
    [material_index |-> material_index,
     loops |-> <<LoopAt(n * Far, One), LoopAt((n + 1) * Far, One),
                 LoopAt((n + 2) * Far, One)>>]

\* type, material slots and triangles of an object that has a UV channel with
\* sound tangents; the points of the triangles lie on the x axis
Shape(type, materials, loop_triangles) ==
    [type |-> type, materials |-> materials, loop_triangles |-> loop_triangles,
     uv_layers |-> TRUE, tangents_ok |-> TRUE, dimensions |-> <<2 * Far, 0, 0>>]

Empty == Shape("EMPTY", <<>>, <<>>)
Curve == Shape("CURVE", <<>>, <<>>)
MeshRoad == Shape("MESH", <<MatRoad>>, <<Tri(0)>>)
MeshSliver == Shape("MESH", <<MatGrass>>, <<Sliver(0)>>)
MeshNoMaterials == Shape("MESH", <<>>, <<Tri(0)>>)
MeshEmptySlot == Shape("MESH", <<None>>, <<Tri(0)>>)
MeshHalfAssigned == Shape("MESH", <<MatRoad, None>>, <<Tri(0), Tri(1)>>)
MeshTwoMaterials == Shape("MESH", <<MatRoad, MatGrass>>, <<Sliver(0), Sliver(1)>>)
\* more vertices than MAX_VERTICES_PER_MESH in one material group
MeshForest ==
    Shape("MESH", <<MatGrass>>, <<TriFrom(0, 0), TriFrom(3, 0), TriFrom(6, 0)>>)

\* a mesh of loose vertices: a material, but no face
MeshNoFaces == Shape("MESH", <<MatRoad>>, <<>>)

Shapes ==
    {Empty, Curve, MeshRoad, MeshSliver, MeshNoMaterials, MeshEmptySlot,
     MeshHalfAssigned, MeshTwoMaterials, MeshForest, MeshNoFaces}

NameOak1 ==
    <<"K","S","T","R","E","E","_","G","R","O","U","P","_","O","A","K","_","1">>
NameOak2 ==
    <<"k","s","t","r","e","e","_","g","r","o","u","p","_","O","a","k","_","2">>
NameGroupOak3 == <<"G","R","O","U","P","_","O","A","K","_","3">>
NameElm1 ==
    <<"K","S","T","R","E","E","_","G","R","O","U","P","_","e","l","m","_","1">>
NameRoad == <<"R","O","A","D">>
NameHidden == <<"_","_","C","O","N","E">>
NamePit == <<"A","C","_","P","I","T","_","0">>

Names == {NameOak1, NameOak2, NameElm1, NameGroupOak3, NameRoad, NamePit}

\* where the objects without geometry stand, the meshes standing at the origin
AwayFromOrigin == <<1, 2, 3>>

SceneObject(name, shape, visibility, parent) ==
    [name |-> name, type |-> shape.type, parent |-> parent,
     hide_viewport |-> visibility.hide_viewport,
     hide_render |-> visibility.hide_render,
     hide_get |-> visibility.hide_get,
     users_collection |-> visibility.users_collection,
     materials |-> shape.materials, uv_layers |-> shape.uv_layers,
     tangents_ok |-> shape.tangents_ok, dimensions |-> shape.dimensions,
     matrix_world |-> IF shape.type = "MESH" THEN Matrix ELSE AwayFromOrigin,
     loop_triangles |-> shape.loop_triangles]

RECURSIVE Ancestors(_, _, _)
\* the chain of parents of object i, given up after `fuel` steps
Ancestors(parents, i, fuel) ==
    IF parents[i] = 0 \/ fuel = 0 THEN {}
    ELSE {parents[i]} \cup Ancestors(parents, parents[i], fuel - 1)

\* objs is a scene of n objects with names, shapes and visibility settings from
\* the given pools: names are unique, and the parent relation is a forest
IsSceneOf(objs, n, names, shapes, visibilities) ==
    \E nm \in [1..n -> names], sh \in [1..n -> shapes],
       vis \in [1..n -> visibilities], par \in [1..n -> 0..n] :
        /\ \A i, j \in 1..n : nm[i] = nm[j] => i = j
        /\ \A i \in 1..n : i \notin Ancestors(par, i, n)
        /\ objs = [i \in 1..n |-> SceneObject(nm[i], sh[i], vis[i], par[i])]

\* objs is a scene of up to MaxObjects objects that are visible or in an
\* excluded collection
IsScene(objs, names, shapes) ==
    \E n \in 1..MaxObjects :
        IsSceneOf(objs, n, names, shapes, {Visible, InExcludedCollection})

---------------------------------------------------------------------------
(* NodeWriter.write, one child of the root at a time.  When it is run on its
   own (entry = NotCalled) it ends in "done" or "failed"; inside an export it hands
   over to the entry point. *)

AfterNodes == IF entry = NotCalled THEN "done" ELSE "close"
AfterRaise == IF entry = NotCalled THEN "failed" ELSE "except"

\* a writer of one child of the root has returned or raised
Wrote(st) ==
    /\ written' = st.written
    /\ warnings' = st.warnings
    /\ error' = st.error
    /\ pc' = IF st.error = NoError THEN "children" ELSE AfterRaise

\* regular_objects, kstree_groups = self._collect_and_group_objects(), then the
\* root node with one child per regular object and per group
WriteRoot ==
    /\ pc = "root"
    /\ regular_objects' = RegularObjects(objects)
    /\ kstree_groups' = KstreeGroups(objects)
    /\ written' = <<BaseNode(<<"B","l","e","n","d","e","r","F","i","l","e">>,
                             Len(RegularObjects(objects)) + Len(KstreeGroups(objects)),
                             Matrix)>>
    /\ pc' = "children"
    /\ UNCHANGED <<obj, material_positions, divided_meshes, limit_meshes, mesh_data,
                   error, objects, warnings, dedupVars, textureVars, runVars,
                   coordVars, smartVars, fileVars>>

\* the next turn of: for group_key in sorted(kstree_groups.keys())
WriteNextGroup ==
    /\ pc = "children"
    /\ kstree_groups # <<>>
    /\ Wrote(WriteKstreeGroup(objects, Head(kstree_groups), material_positions,
                               Stream(written, warnings, NoError)))
    /\ kstree_groups' = Tail(kstree_groups)
    /\ UNCHANGED <<obj, material_positions, divided_meshes, limit_meshes, mesh_data,
                   objects, regular_objects, dedupVars, textureVars, runVars,
                   coordVars, smartVars, fileVars>>

\* the next turn of: for obj in regular_objects: self._write_object(obj)
WriteNextObject ==
    /\ pc = "children"
    /\ kstree_groups = <<>>
    /\ regular_objects # <<>>
    /\ Wrote(WriteObject(objects, Head(regular_objects), material_positions,
                          Stream(written, warnings, NoError)))
    /\ regular_objects' = Tail(regular_objects)
    /\ UNCHANGED <<obj, material_positions, divided_meshes, limit_meshes, mesh_data,
                   objects, kstree_groups, dedupVars, textureVars, runVars, coordVars,
                   smartVars, fileVars>>

\* write() returns
NodesWritten ==
    /\ pc = "children"
    /\ kstree_groups = <<>>
    /\ regular_objects = <<>>
    /\ pc' = AfterNodes
    /\ IF entry = NotCalled THEN UNCHANGED sections
       ELSE sections' = Append(sections, [section |-> "nodes", content |-> <<>>])
    /\ UNCHANGED <<error, meshVars, dedupVars, textureVars, runVars, coordVars,
                   smartVars, sceneVars, entry, existing, dest, tmp, renamed_objects,
                   names_at_call, status>>

InitNodes ==
    /\ pc = "root"
    /\ IsScene(objects, Names, Shapes)
    /\ material_positions = MaterialPositions(objects)
    /\ obj = NoObject
    /\ divided_meshes = <<>>
    /\ limit_meshes = <<>>
    /\ mesh_data = <<>>
    /\ written = <<>>
    /\ error = NoError
    /\ group_loops = <<>>
    /\ vertices = <<>>
    /\ face_indices = <<>>
    /\ regular_objects = <<>>
    /\ kstree_groups = <<>>
    /\ warnings = <<>>
    /\ NoFile

NextNodes == WriteRoot \/ WriteNextGroup \/ WriteNextObject \/ NodesWritten

SpecNodes == InitNodes /\ [][NextNodes]_vars

---------------------------------------------------------------------------
(* NodeWriter.write on meshes without a UV channel or without sound tangents *)

\* a triangle in the ground plane that is as wide as it is deep
TriGround(material_index) ==
    [material_index |-> material_index,
     loops |-> <<LoopAt(0, One), LoopAt(Far, One),
                 [LoopAt(0, One) EXCEPT !.co = <<0, Far, 0>>]>>]

MeshGround ==
    [Shape("MESH", <<MatRoad>>, <<TriGround(0)>>)
        EXCEPT !.dimensions = <<Far, Far, 0>>]
\* no UV channel
MeshGroundNoUvs == [MeshGround EXCEPT !.uv_layers = FALSE]
\* a UV channel on which calc_tangents raises RuntimeError
MeshGroundBadTangents == [MeshGround EXCEPT !.tangents_ok = FALSE]
\* no UV channel, and no extent along y
MeshRoadNoUvs == [MeshRoad EXCEPT !.uv_layers = FALSE]

UvShapes == {Empty, MeshGround, MeshGroundNoUvs, MeshGroundBadTangents, MeshRoadNoUvs}
UvNames == {NameOak1, NameRoad, NamePit}

InitUvs ==
    /\ pc = "root"
    /\ IsScene(objects, UvNames, UvShapes)
    /\ material_positions = MaterialPositions(objects)
    /\ obj = NoObject
    /\ divided_meshes = <<>>
    /\ limit_meshes = <<>>
    /\ mesh_data = <<>>
    /\ written = <<>>
    /\ error = NoError
    /\ group_loops = <<>>
    /\ vertices = <<>>
    /\ face_indices = <<>>
    /\ regular_objects = <<>>
    /\ kstree_groups = <<>>
    /\ warnings = <<>>
    /\ NoFile

SpecUvs == InitUvs /\ [][NextNodes]_vars

---------------------------------------------------------------------------
(* NodeWriter.write on deeper hierarchies: up to MaxTreeObjects objects from
   small pools, with every kind of exclusion *)

MaxTreeObjects == 3

TreeNames == {NameOak1, NameRoad, NameHidden}
TreeShapes == {Empty, MeshRoad}
TreeVisibilities == {Visible, InExcludedCollection, HiddenInViewport}

InitTree ==
    /\ pc = "root"
    /\ \E n \in 1..MaxTreeObjects :
          IsSceneOf(objects, n, TreeNames, TreeShapes, TreeVisibilities)
    /\ material_positions = MaterialPositions(objects)
    /\ obj = NoObject
    /\ divided_meshes = <<>>
    /\ limit_meshes = <<>>
    /\ mesh_data = <<>>
    /\ written = <<>>
    /\ error = NoError
    /\ group_loops = <<>>
    /\ vertices = <<>>
    /\ face_indices = <<>>
    /\ regular_objects = <<>>
    /\ kstree_groups = <<>>
    /\ warnings = <<>>
    /\ NoFile

SpecTree == InitTree /\ [][NextNodes]_vars

---------------------------------------------------------------------------
(* The export entry points: export_kn5 (lib/kn5/exporter.py) and the operator's
   _perform_kn5_export (lib/kn5/exporter_ops.py).  A file is "absent", "old"
   (there before the export, untouched), "partial" (opened for writing by this
   export, not complete) or "complete" (written in full by this export). *)

ExportNames == {NameOak1, NameRoad, NamePit}
ExportShapes ==
    {Empty, Curve, MeshRoad, MeshNoMaterials, MeshEmptySlot, MeshHalfAssigned,
     MeshForest}

InitExport ==
    /\ pc = "idle"
    /\ IsScene(objects, ExportNames, ExportShapes)
    /\ existing \in BOOLEAN
    /\ dest = IF existing THEN "old" ELSE "absent"
    /\ tmp = "absent"
    /\ entry = NotCalled
    /\ status = NotCalled
    /\ sections = <<>>
    /\ renamed_objects = <<>>
    /\ names_at_call = <<>>
    /\ material_positions = <<>>
    /\ obj = NoObject
    /\ divided_meshes = <<>>
    /\ limit_meshes = <<>>
    /\ mesh_data = <<>>
    /\ written = <<>>
    /\ error = NoError
    /\ group_loops = <<>>
    /\ vertices = <<>>
    /\ face_indices = <<>>
    /\ regular_objects = <<>>
    /\ kstree_groups = <<>>
    /\ warnings = <<>>
    /\ NoTextures
    /\ previous_output = <<>>
    /\ NoVector
    /\ NoSmartExport

\* export_kn5(filepath, context) is called
CallExportKn5 ==
    /\ pc = "idle"
    /\ entry' = "export_kn5"
    /\ names_at_call' = [i \in 1..Len(objects) |-> objects[i].name]
    /\ pc' = "open"
    /\ UNCHANGED <<error, meshVars, dedupVars, textureVars, runVars, coordVars,
                   smartVars, sceneVars, existing, dest, tmp, sections,
                   renamed_objects, status>>

\* ExportKN5._perform_kn5_export is called
CallOperator ==
    /\ pc = "idle"
    /\ entry' = "operator"
    /\ names_at_call' = [i \in 1..Len(objects) |-> objects[i].name]
    /\ pc' = "prefix"
    /\ UNCHANGED <<error, meshVars, dedupVars, textureVars, runVars, coordVars,
                   smartVars, sceneVars, existing, dest, tmp, sections,
                   renamed_objects, status>>

\* the operator hides an object that is not excluded, not yet hidden by name,
\* and a curve or a mesh with no material slot or only empty ones
ShouldPrefix(o) ==
    /\ ~is_object_excluded_by_collection(o)
    /\ \/ o.type = "CURVE"
       \/ /\ o.type = "MESH"
          /\ \/ o.materials = <<>>
             \/ \A m \in 1..Len(o.materials) : o.materials[m] = None
    /\ ~is_hidden_name(o.name)

\* the scene after obj.name = "__" + original_name for every such object
PrefixedObjects(objs) ==
    [i \in 1..Len(objs) |->
        IF ShouldPrefix(objs[i])
        THEN [objs[i] EXCEPT !.name = <<"_", "_">> \o @]
        ELSE objs[i]]

PrefixObjects ==
    /\ pc = "prefix"
    /\ objects' = PrefixedObjects(objects)
    /\ renamed_objects' =
          LET to_prefix == SelectSeq([i \in 1..Len(objects) |-> i],
                                     LAMBDA i : ShouldPrefix(objects[i]))
          IN  [n \in 1..Len(to_prefix) |-> <<to_prefix[n], objects[to_prefix[n]].name>>]
    /\ pc' = "open"
    /\ UNCHANGED <<error, meshVars, dedupVars, textureVars, runVars, coordVars,
                   smartVars, regular_objects, kstree_groups, warnings, entry,
                   existing, dest, tmp, sections, names_at_call, status>>

\* open(temp_filepath, "wb") in export_kn5, open(self.filepath, "wb") in the
\* operator: the file is created or truncated, or the open raises
OpenOutput ==
    /\ pc = "open"
    /\ \/ /\ entry = "export_kn5"
          /\ tmp' = "partial"
          /\ pc' = "header"
          /\ UNCHANGED <<dest, error>>
       \/ /\ entry = "operator"
          /\ dest' = "partial"
          /\ pc' = "settings"
          /\ UNCHANGED <<tmp, error>>
       \/ /\ error' = "OSError: open"
          /\ pc' = "except"
          /\ UNCHANGED <<dest, tmp>>
    /\ UNCHANGED <<meshVars, dedupVars, textureVars, runVars, coordVars, smartVars,
                   sceneVars, entry, existing, sections, renamed_objects,
                   names_at_call, status>>

\* settings = read_settings(self.filepath): settings.json next to the output is
\* parsed if it is there, which can raise
ReadSettings ==
    /\ pc = "settings"
    /\ \/ pc' = "header" /\ UNCHANGED error
       \/ pc' = "except" /\ error' = "JSONDecodeError"
    /\ UNCHANGED <<meshVars, dedupVars, textureVars, runVars, coordVars, smartVars,
                   sceneVars, fileVars>>

KN5_HEADER == <<"s", "c", "6", "9", "6", "9">>
KN5_VERSION == 5
\* KN5FileWriter.file_version
file_version == 5

\* mutant of HeaderOf: the operator's writer is a version behind
HeaderOfOlderOperator(caller) ==
    IF caller = "operator" THEN <<KN5_HEADER, file_version - 1>>
    ELSE <<KN5_HEADER, KN5_VERSION>>

\* the bytes of the signature and the uint32 after it: export_kn5 writes through
\* KN5Exporter, the operator through KN5FileWriter
HeaderOf(caller) ==
    IF caller = "operator" THEN <<KN5_HEADER, file_version>>
    ELSE <<KN5_HEADER, KN5_VERSION>>

\* _write_header: the signature and the version
WriteHeader ==
    /\ pc = "header"
    /\ sections' = Append(sections, [section |-> "header", content |-> HeaderOf(entry)])
    /\ pc' = "textures"
    /\ UNCHANGED <<error, meshVars, dedupVars, textureVars, runVars, coordVars,
                   smartVars, sceneVars, entry, existing, dest, tmp, renamed_objects,
                   names_at_call, status>>

\* texture_writer.write()
WriteTextures ==
    /\ pc = "textures"
    /\ sections' = Append(sections, [section |-> "textures", content |-> <<>>])
    /\ pc' = "materials"
    /\ UNCHANGED <<error, meshVars, dedupVars, textureVars, runVars, coordVars,
                   smartVars, sceneVars, entry, existing, dest, tmp, renamed_objects,
                   names_at_call, status>>

\* material_writer.write(), which leaves material_positions for the node writer
WriteMaterials ==
    /\ pc = "materials"
    /\ sections' = Append(sections, [section |-> "materials", content |-> <<>>])
    /\ material_positions' = MaterialPositions(objects)
    /\ pc' = "root"
    /\ UNCHANGED <<error, obj, divided_meshes, limit_meshes, mesh_data, written,
                   dedupVars, textureVars, runVars, coordVars, smartVars, sceneVars,
                   entry, existing, dest, tmp, renamed_objects, names_at_call, status>>

\* a write to the open file raises (an I/O error), at any point of write()
WriteFails ==
    /\ pc \in {"header", "textures", "materials", "root", "children"}
    /\ entry # NotCalled
    /\ error' = "OSError: write"
    /\ pc' = "except"
    /\ UNCHANGED <<meshVars, dedupVars, textureVars, runVars, coordVars, smartVars,
                   sceneVars, fileVars>>

\* write() has returned and the file is closed.  In export_kn5 the texture copy
\* and the replace are still to come; the operator has finished.
CloseOutput ==
    /\ pc = "close"
    /\ \/ /\ entry = "export_kn5"
          /\ tmp' = "complete"
          /\ pc' = "copy"
          /\ UNCHANGED <<dest, status>>
       \/ /\ entry = "operator"
          /\ dest' = "complete"
          /\ status' = "FINISHED"
          /\ pc' = "finally"
          /\ UNCHANGED tmp
    /\ UNCHANGED <<error, meshVars, dedupVars, textureVars, runVars, coordVars,
                   smartVars, sceneVars, entry, existing, sections, renamed_objects,
                   names_at_call>>

\* copy_textures_to_working_directory, when copy_textures is set: failed copies
\* are warnings inside it, os.makedirs can raise
CopyTextures ==
    /\ pc = "copy"
    /\ \/ pc' = "replace" /\ UNCHANGED error
       \/ pc' = "except" /\ error' = "OSError: makedirs"
    /\ UNCHANGED <<meshVars, dedupVars, textureVars, runVars, coordVars, smartVars,
                   sceneVars, fileVars>>

\* os.replace(temp_filepath, filepath), or os.rename when nothing is at filepath
ReplaceTarget ==
    /\ pc = "replace"
    /\ \/ /\ dest' = tmp
          /\ tmp' = "absent"
          /\ status' = "success"
          /\ pc' = "done"
          /\ UNCHANGED error
       \/ /\ error' = "OSError: replace"
          /\ pc' = "except"
          /\ UNCHANGED <<dest, tmp, status>>
    /\ UNCHANGED <<meshVars, dedupVars, textureVars, runVars, coordVars, smartVars,
                   sceneVars, entry, existing, sections, renamed_objects,
                   names_at_call>>

\* what can be at a path after a file is removed from it: nothing, or what was
\* there when the removal raises OSError, which both handlers pass over
AfterRemove(file) == IF file = "absent" THEN {"absent"} ELSE {"absent", file}

\* except Exception: export_kn5 records the failure and unlinks the temporary
\* file; the operator removes the file at filepath
HandleException ==
    /\ pc = "except"
    /\ \/ /\ entry = "export_kn5"
          /\ warnings' = Append(warnings, <<"Export failed", error>>)
          /\ tmp' \in AfterRemove(tmp)
          /\ status' = "error"
          /\ pc' = "done"
          /\ UNCHANGED dest
       \/ /\ entry = "operator"
          /\ dest' \in AfterRemove(dest)
          /\ status' = "CANCELLED"
          /\ pc' = "finally"
          /\ UNCHANGED <<tmp, warnings>>
    /\ UNCHANGED <<error, meshVars, dedupVars, textureVars, runVars, coordVars,
                   smartVars, objects, regular_objects, kstree_groups, entry, existing,
                   sections, renamed_objects, names_at_call>>

\* mutant of RestoreNames: only the first renamed object gets its name back
RestoreFirstName ==
    /\ pc = "finally"
    /\ objects' =
          [i \in 1..Len(objects) |->
              IF renamed_objects # <<>> /\ renamed_objects[1][1] = i
              THEN [objects[i] EXCEPT !.name = renamed_objects[1][2]]
              ELSE objects[i]]
    /\ pc' = "done"
    /\ UNCHANGED <<error, meshVars, dedupVars, textureVars, runVars, coordVars,
                   smartVars, regular_objects, kstree_groups, warnings, entry,
                   existing, dest, tmp, sections, renamed_objects, names_at_call,
                   status>>

\* finally: obj.name = original_name for every renamed object
RestoreNames ==
    /\ pc = "finally"
    /\ objects' =
          [i \in 1..Len(objects) |->
              IF \E n \in 1..Len(renamed_objects) : renamed_objects[n][1] = i
              THEN [objects[i] EXCEPT !.name =
                      renamed_objects[CHOOSE n \in 1..Len(renamed_objects) :
                                          renamed_objects[n][1] = i][2]]
              ELSE objects[i]]
    /\ pc' = "done"
    /\ UNCHANGED <<error, meshVars, dedupVars, textureVars, runVars, coordVars,
                   smartVars, regular_objects, kstree_groups, warnings, entry,
                   existing, dest, tmp, sections, renamed_objects, names_at_call,
                   status>>

NextExport ==
    \/ CallExportKn5 \/ CallOperator \/ PrefixObjects \/ OpenOutput \/ ReadSettings
    \/ WriteHeader \/ WriteTextures \/ WriteMaterials
    \/ WriteRoot \/ WriteNextGroup \/ WriteNextObject \/ NodesWritten \/ WriteFails
    \/ CloseOutput \/ CopyTextures \/ ReplaceTarget \/ HandleException
    \/ RestoreNames

SpecExport == InitExport /\ [][NextExport]_vars

---------------------------------------------------------------------------
(* Claims about the node tree writer (SpecNodes) *)

\* the objects write() does not skip at the top level, as a set
TopLevelSet == {TopLevel(objects)[n] : n \in 1..Len(TopLevel(objects))}

\* the mesh objects merged into instance groups
GroupMeshMembers ==
    {i \in TopLevelSet : /\ objects[i].type = "MESH"
                         /\ get_kstree_group_name(objects[i].name) # None}

RECURSIVE VisitedIn(_, _)
\* _write_object gets to object i of the scene objs unless the export has failed
\* before: i is neither hidden by name nor excluded, and it is a regular
\* top-level object or the child of such an object
VisitedIn(objs, i) ==
    /\ ~is_hidden_name(objs[i].name)
    /\ ~is_object_excluded_by_collection(objs[i])
    /\ IF objs[i].parent = 0
       THEN get_kstree_group_name(objs[i].name) = None
       ELSE VisitedIn(objs, objs[i].parent)

VisitedOrdinary(i) == VisitedIn(objects, i)

HasChild(i) == \E j \in 1..Len(objects) : objects[j].parent = i

MeshNodes == {n \in 1..Len(written) : written[n].class = NODE_CLASS_MESH}

\* C9: every Mesh node written declares child count 0, and an export that
\* completes has exported no mesh object that has a child, neither as an
\* ordinary object nor as a member of an instance group
C9_MeshWithChildFailsExport ==
    /\ \A n \in MeshNodes : written[n].childCount = 0
    /\ pc = "done" =>
          \A i \in 1..Len(objects) :
              (/\ objects[i].type = "MESH"
               /\ (VisitedOrdinary(i) \/ i \in GroupMeshMembers))
                  => ~HasChild(i)

\* the number of different loops among the triangles of one slot of an object;
\* the points of the scenes are far apart, so this is the number of vertices
\* the slot has after deduplication
SlotVertexCount(o, material_index) ==
    Cardinality({o.loop_triangles[t].loops[k] :
                    t \in {u \in 1..Len(o.loop_triangles) :
                              o.loop_triangles[u].material_index = material_index},
                    k \in 1..3})

\* the slots of an object whose triangles go into an instance group: used, with
\* a material that is assigned and not hidden by name
MergedSlots(o) ==
    {m \in used_materials(o) :
        /\ o.materials # <<>>
        /\ o.materials[m + 1] # None
        /\ ~is_hidden_name(o.materials[m + 1])}

RECURSIVE SumOver(_, _)
SumOver(S, count) ==
    IF S = {} THEN 0
    ELSE LET x == CHOOSE y \in S : TRUE
         IN  count[x] + SumOver(S \ {x}, count)

\* the vertices object i brings into its group
MemberVertexCount(i) ==
    SumOver(MergedSlots(objects[i]),
            [m \in MergedSlots(objects[i]) |-> SlotVertexCount(objects[i], m)])

\* the objects write() does not skip whose names match `prefix`<name>_<number>
\* with the lower-cased <name> `key`
Matching(prefix, key) ==
    {i \in TopLevelSet : /\ GroupNameAfter(prefix, objects[i].name) # None
                         /\ Lower(GroupNameAfter(prefix, objects[i].name)) = key}

MeshesOf(S) == {i \in S : objects[i].type = "MESH"}

\* the first object of a set in scene order
First(S) == CHOOSE i \in S : \A j \in S : i <= j

NodesNamedLike(key) == {n \in MeshNodes : Lower(written[n].name) = key}

\* the group of the objects S is emitted as exactly one Mesh node, named as
\* the object `first` names the group, with the vertices of all mesh members,
\* and no member is emitted under its own name
EmittedAsOneNode(prefix, key, S, first) ==
    /\ Cardinality(NodesNamedLike(key)) = 1
    /\ \A n \in NodesNamedLike(key) :
          /\ written[n].name = GroupNameAfter(prefix, objects[first].name)
          /\ Len(written[n].vertices) =
                SumOver(MeshesOf(S), [i \in MeshesOf(S) |-> MemberVertexCount(i)])
    /\ \A i \in S : \A n \in 1..Len(written) : written[n].name # objects[i].name

GROUP_PREFIX == <<"g", "r", "o", "u", "p", "_">>

---------------------------------------------------------------------------
(* Claims about the export entry points (SpecExport) *)

Returned == pc = "done"
Failed == status \in {"error", "CANCELLED"}

\* what was at filepath when the export was called
Before == IF existing THEN "old" ELSE "absent"

\* C1: when an export has failed, through either entry point, the file at the
\* destination path is what it was before the export: a file that was there is
\* still there with its content, and no new file is left there
C1_FailedExportLeavesDestination ==
    (Returned /\ Failed) => dest = Before

\* a mesh object with no materials, or with a triangle that uses a slot with no
\* material assigned
Defective(o) ==
    /\ o.type = "MESH"
    /\ \/ o.materials = <<>>
       \/ \E t \in 1..Len(o.loop_triangles) :
             o.materials[o.loop_triangles[t].material_index + 1] = None

NonExcluded(o) ==
    ~is_hidden_name(o.name) /\ ~is_object_excluded_by_collection(o)

SceneWritten ==
    IF entry = "operator" THEN PrefixedObjects(objects) ELSE objects

---------------------------------------------------------------------------
(* Claims about instance groups over the vertex limit (SpecExport) *)

\* the mesh objects of the scene the node writer is given that are merged into
\* the instance group of the lower-cased name `key`
GroupMeshesWritten(key) ==
    {i \in 1..Len(objects) :
        /\ \E n \in 1..Len(TopLevel(SceneWritten)) : TopLevel(SceneWritten)[n] = i
        /\ objects[i].type = "MESH"
        /\ get_kstree_group_name(SceneWritten[i].name) # None
        /\ Lower(get_kstree_group_name(SceneWritten[i].name)) = key}

GroupVertexCount(key) ==
    SumOver(GroupMeshesWritten(key),
            [i \in GroupMeshesWritten(key) |-> MemberVertexCount(i)])

\* the keys of the groups whose merged mesh exceeds MAX_VERTICES_PER_MESH
OversizedGroups ==
    {key \in {Lower(get_kstree_group_name(SceneWritten[i].name)) :
                i \in {j \in 1..Len(objects) :
                          get_kstree_group_name(SceneWritten[j].name) # None}} :
        GroupVertexCount(key) > MAX_VERTICES_PER_MESH}

OversizedWarned(key) ==
    \E w \in 1..Len(warnings) :
        /\ warnings[w][1] = "group exceeds the vertex limit"
        /\ Lower(warnings[w][2]) = key

---------------------------------------------------------------------------
(* Claims about the root node and the order of its children (SpecNodes) *)

\* the top-level objects that are neither hidden by name nor excluded
NonExcludedTop ==
    {i \in 1..Len(objects) : objects[i].parent = 0 /\ NonExcluded(objects[i])}

OrdinaryTop ==
    {i \in NonExcludedTop : get_kstree_group_name(objects[i].name) = None}

\* the distinct instance groups, by lower-cased name
GroupKeys ==
    {Lower(get_kstree_group_name(objects[i].name)) : i \in NonExcludedTop \ OrdinaryTop}

\* C12: the first node written is a plain Node for the scene container whose
\* declared child count is the number of top-level non-excluded ordinary
\* objects plus the number of distinct instance groups
C12_RootCountsObjectsAndGroups ==
    written # <<>> =>
        /\ written[1].class = NODE_CLASS_NODE
        /\ written[1].name = <<"B","l","e","n","d","e","r","F","i","l","e">>
        /\ written[1].childCount = Cardinality(OrdinaryTop) + Cardinality(GroupKeys)

\* the root has been written for a scene in which two objects share a group
C12_Witness ==
    /\ pc = "done"
    /\ Cardinality(NonExcludedTop \ OrdinaryTop) = 2
    /\ Cardinality(GroupKeys) = 1
    /\ written[1].childCount = 1

\* the n-th node written is the Mesh node of an instance group
GroupNodeAt(n) ==
    /\ n \in MeshNodes
    /\ Lower(written[n].name) \in GroupKeys

\* C13 as stated: under the root, the Mesh nodes of the instance groups come
\* before every node of an ordinary object, in ascending order of the names
\* they are emitted under
C13_GroupsFirstInEmittedNameOrder ==
    \A n, m \in 2..Len(written) :
        /\ (GroupNodeAt(n) /\ ~GroupNodeAt(m)) => n < m
        /\ (GroupNodeAt(n) /\ GroupNodeAt(m) /\ n < m)
              => StrLess(written[n].name, written[m].name)

\* C13 amended: under the root, the Mesh nodes of the instance groups come
\* before every node of an ordinary object, in ascending order of their
\* lower-cased group names
C13_GroupsFirstInLowerCaseOrder ==
    \A n, m \in 2..Len(written) :
        /\ (GroupNodeAt(n) /\ ~GroupNodeAt(m)) => n < m
        /\ (GroupNodeAt(n) /\ GroupNodeAt(m) /\ n < m)
              => StrLess(Lower(written[n].name), Lower(written[m].name))

\* two groups have been written whose emitted names are in another order than
\* their lower-cased names
C13_Witness ==
    /\ pc = "done"
    /\ \E n, m \in 2..Len(written) :
          /\ n < m
          /\ GroupNodeAt(n)
          /\ GroupNodeAt(m)
          /\ StrLess(written[m].name, written[n].name)

---------------------------------------------------------------------------
(* Claims about excluded objects (SpecTree) *)

ParentOf == [j \in 1..Len(objects) |-> objects[j].parent]

\* object i is excluded, or a descendant of an excluded object
Skipped(i) ==
    \E a \in {i} \cup Ancestors(ParentOf, i, Len(objects)) : ~NonExcluded(objects[a])

\* C14: no node is written for an excluded object nor for a descendant of one,
\* and the Node of an object that is not a mesh declares as many children as
\* the object has children that are not excluded
C14_ExcludedObjectsLeaveNoTrace ==
    \A n \in 1..Len(written) : \A i \in 1..Len(objects) :
        /\ Skipped(i) => written[n].name # objects[i].name
        /\ (/\ written[n].name = objects[i].name
            /\ written[n].class = NODE_CLASS_NODE
            /\ objects[i].type # "MESH")
              => written[n].childCount =
                    Cardinality({j \in 1..Len(objects) :
                        objects[j].parent = i /\ NonExcluded(objects[j])})

\* the writer has finished a scene in which a written top-level object has an
\* excluded child that has a child of its own which is not excluded itself
C14_Witness ==
    /\ pc = "done"
    /\ \E i, j, k \in 1..Len(objects) :
          /\ objects[i].parent = 0
          /\ objects[j].parent = i
          /\ objects[k].parent = j
          /\ is_object_excluded_by_collection(objects[j])
          /\ NonExcluded(objects[k])
          /\ \E n \in 1..Len(written) :
                written[n].name = objects[i].name /\ written[n].childCount = 0

---------------------------------------------------------------------------
(* TextureWriter.  A file name is the sequence of its dot-separated parts, so
   that "grass.png.001" is <<"grass", "png", "001">>; image data is a sequence of
   bytes that starts with the format's signature. *)

DDS_HEADER_BYTES == <<"D", "D", "S">>
PNG_HEADER_BYTES == <<"0x89", "P", "N", "G">>
TGA_HEADER_BYTES == <<"0x00", "0x00", "0x02">>

\* data[:n]
Prefix(data, n) == SubSeq(data, 1, IF Len(data) < n THEN Len(data) ELSE n)

is_png_data(image_data) == Prefix(image_data, 4) = PNG_HEADER_BYTES
is_dds_data(image_data) == Prefix(image_data, 3) = DDS_HEADER_BYTES

\* os.path.splitext: the root and the extension of a file name
splitext(name) ==
    IF Len(name) > 1 THEN <<SubSeq(name, 1, Len(name) - 1), <<name[Len(name)]>>>>
    ELSE <<name, <<>>>>

\* os.path.basename of a path kept as directory and file name
basename(filepath) == filepath.file

\* an image of the blend file: `file_data` is what the file at `filepath` holds
\* when it exists, `packed_file` the packed bytes or None, `pixels` whether the
\* image has pixel data
Image(name, filepath, on_disk, file_data, packed_file, pixels) ==
    [name |-> name, filepath |-> filepath, on_disk |-> on_disk,
     file_data |-> file_data, packed_file |-> packed_file, pixels |-> pixels]

\* a node of a material's node tree
TexImage(name, image) == [name |-> name, type |-> "TEX_IMAGE", image |-> image]
Bsdf == [name |-> <<"B","S","D","F">>, type |-> "BSDF_PRINCIPLED", image |-> None]

get_real_texture_name(image) ==
    IF image.filepath # None /\ basename(image.filepath) # <<>>
    THEN basename(image.filepath)
    ELSE image.name

\* what image.save() writes to the temporary path: a PNG of the pixels
SavedPng(image) == PNG_HEADER_BYTES \o <<"pixels of">> \o image.name

\* TextureWriter._get_raw_image_data
get_raw_image_data(image) ==
    IF image.filepath # None /\ image.on_disk
    THEN [error |-> NoError, data |-> image.file_data]
    ELSE IF image.packed_file # None
    THEN [error |-> NoError, data |-> image.packed_file]
    ELSE IF image.pixels
    THEN [error |-> NoError, data |-> SavedPng(image)]
    ELSE [error |-> <<"RuntimeError", "Cannot get image data">>, data |-> <<>>]

\* what texconv.exe can do with a PNG when it is there
Outcomes == {"converted", "no output file", "CalledProcessError", "Exception"}

\* the DDS file texconv writes for a PNG
Bc3(png_data) == DDS_HEADER_BYTES \o <<"BC3_UNORM">> \o png_data

\* convert_png_to_dds: the data, the new name and the warning list; `run` is what
\* came of subprocess.run when it was reached
convert_png_to_dds(png_data, image_name, warns, tool, outcome) ==
    IF tool = "absent"
    THEN [dds_data |-> None, new_name |-> None, run |-> <<>>,
          warnings |-> Append(warns, <<"texconv.exe not found - PNG will not be converted">>)]
    ELSE IF outcome = "converted"
    THEN [dds_data |-> Bc3(png_data),
          new_name |-> Append(splitext(image_name)[1], "dds"),
          run |-> <<outcome>>, warnings |-> warns]
    ELSE IF outcome = "no output file"
    THEN [dds_data |-> None, new_name |-> None, run |-> <<outcome>>,
          warnings |-> Append(warns, <<"texconv did not create output file for", image_name>>)]
    ELSE IF outcome = "CalledProcessError"
    THEN [dds_data |-> None, new_name |-> None, run |-> <<outcome>>,
          warnings |-> Append(warns, <<"texconv failed for", image_name>>)]
    ELSE [dds_data |-> None, new_name |-> None, run |-> <<outcome>>,
          warnings |-> Append(warns, <<"Error converting to DDS", image_name>>)]

\* mutant of AfterConversion: after a failed conversion the texture is written
\* under the name the DDS would have had
AfterConversionRenamed(real_name, image_data, converted) ==
    [output_name |-> Append(splitext(real_name)[1], "dds"),
     image_data |-> IF converted.dds_data # None THEN converted.dds_data ELSE image_data,
     warnings |-> Append(converted.warnings,
                         IF converted.dds_data # None
                         THEN <<"Converted to DDS", real_name>>
                         ELSE <<"Using original PNG (conversion failed)", real_name>>),
     run |-> converted.run, error |-> NoError]

\* the tail of TextureWriter._process_texture, after the conversion has returned
AfterConversion(real_name, image_data, converted) ==
    IF converted.dds_data # None
    THEN [output_name |-> converted.new_name, image_data |-> converted.dds_data,
          warnings |-> Append(converted.warnings, <<"Converted to DDS", real_name>>),
          run |-> converted.run, error |-> NoError]
    ELSE [output_name |-> real_name, image_data |-> image_data,
          warnings |-> Append(converted.warnings,
                              <<"Using original PNG (conversion failed)", real_name>>),
          run |-> converted.run, error |-> NoError]

\* TextureWriter._process_texture on the data read for the node's image
ProcessData(real_name, raw, warns, tool, outcome) ==
    IF raw.error # NoError
    THEN [output_name |-> None, image_data |-> None, warnings |-> warns,
          run |-> <<>>, error |-> raw.error]
    ELSE IF is_dds_data(raw.data)
    THEN [output_name |-> real_name, image_data |-> raw.data, warnings |-> warns,
          run |-> <<>>, error |-> NoError]
    ELSE IF is_png_data(raw.data)
    THEN AfterConversion(real_name, raw.data,
                         convert_png_to_dds(raw.data, real_name, warns, tool, outcome))
    ELSE [output_name |-> real_name, image_data |-> raw.data, warnings |-> warns,
          run |-> <<>>, error |-> NoError]

process_texture(texture_node, warns, tool, outcome) ==
    ProcessData(get_real_texture_name(texture_node.image),
                get_raw_image_data(texture_node.image), warns, tool, outcome)

\* a dict as the sequence of its items, in insertion order
DictHas(d, k) == \E i \in 1..Len(d) : d[i].key = k
DictGet(d, k) == d[CHOOSE i \in 1..Len(d) : d[i].key = k].value
\* d[k] = v: a key that is already there keeps its place
DictPut(d, k, v) ==
    IF DictHas(d, k)
    THEN [i \in 1..Len(d) |-> IF d[i].key = k THEN [key |-> k, value |-> v] ELSE d[i]]
    ELSE Append(d, [key |-> k, value |-> v])

\* the images of the blend file
ImgGrass ==
    Image(<<"grass", "png", "001">>, [dir |-> "//textures", file |-> <<"grass", "png">>],
          TRUE, PNG_HEADER_BYTES \o <<"grass">>, None, TRUE)
ImgRoad ==
    Image(<<"road", "dds">>, [dir |-> "//textures", file |-> <<"road", "dds">>],
          TRUE, DDS_HEADER_BYTES \o <<"road">>, None, TRUE)
ImgSky ==
    Image(<<"sky", "tga">>, None, FALSE, <<>>, TGA_HEADER_BYTES \o <<"sky">>, TRUE)
ImgNoise == Image(<<"noise">>, None, FALSE, <<>>, None, TRUE)
ImgLost ==
    Image(<<"lost", "png">>, [dir |-> "//gone", file |-> <<"lost", "png">>],
          FALSE, <<>>, None, FALSE)

\* a second image loaded from the file of ImgGrass, and a PNG next to the file
\* of ImgRoad
ImgGrassAgain ==
    Image(<<"grass", "png">>, [dir |-> "//textures", file |-> <<"grass", "png">>],
          TRUE, PNG_HEADER_BYTES \o <<"grass">>, None, TRUE)
ImgRoadPng ==
    Image(<<"road", "png">>, [dir |-> "//textures", file |-> <<"road", "png">>],
          TRUE, PNG_HEADER_BYTES \o <<"road">>, None, TRUE)

NodeName == <<"I","m","a","g","e">>
NodeName1 == <<"I","m","a","g","e",".","0","0","1">>
NodeNameHidden == <<"_","_","I","m","a","g","e">>

MatBoth == <<"b", "o", "t", "h">>
MatSky == <<"s", "k", "y">>
MatNoise == <<"n", "o", "i", "s", "e">>
MatGrassAgain == <<"g", "r", "a", "s", "s", ".", "0", "0", "1">>
MatRoadPng == <<"r", "o", "a", "d", "_", "p", "n", "g">>

\* material.node_tree.nodes, None for a material without a node tree
NodeTree(material) ==
    IF material = MatRoad THEN <<TexImage(NodeName, ImgRoad)>>
    ELSE IF material = MatGrass THEN <<TexImage(NodeName, ImgGrass)>>
    ELSE IF material = MatBoth
    THEN <<TexImage(NodeName, ImgGrass), Bsdf, TexImage(NodeName1, ImgRoad)>>
    ELSE IF material = MatSky
    THEN <<TexImage(NodeName, ImgSky), TexImage(NodeNameHidden, ImgNoise)>>
    ELSE IF material = MatNoise
    THEN <<TexImage(NodeName, None), TexImage(NodeName1, ImgLost),
           TexImage(NodeNameHidden, ImgSky), TexImage(NodeName, ImgNoise)>>
    ELSE IF material = MatGrassAgain THEN <<TexImage(NodeName, ImgGrassAgain)>>
    ELSE IF material = MatRoadPng THEN <<TexImage(NodeName, ImgRoadPng)>>
    ELSE None

\* utils.get_texture_nodes
get_texture_nodes(material) ==
    IF NodeTree(material) # None
    THEN SelectSeq(NodeTree(material), LAMBDA node : node.type = "TEX_IMAGE")
    ELSE <<>>

RECURSIVE SlotTextureNodes(_)
\* for slot in obj.material_slots: if slot.material: extend(...)
SlotTextureNodes(slots) ==
    IF slots = <<>> THEN <<>>
    ELSE (IF Head(slots) # None THEN get_texture_nodes(Head(slots)) ELSE <<>>)
         \o SlotTextureNodes(Tail(slots))

RECURSIVE get_all_texture_nodes(_)
\* utils.get_all_texture_nodes
get_all_texture_nodes(objs) ==
    IF objs = <<>> THEN <<>>
    ELSE (IF Head(objs).type # "MESH" THEN <<>>
          ELSE SlotTextureNodes(Head(objs).materials))
         \o get_all_texture_nodes(Tail(objs))

\* one turn of the loop of TextureWriter._fill_available_image_textures
FillOne(texture_node, st) ==
    IF is_hidden_name(texture_node.name) THEN st
    ELSE IF texture_node.image = None
    THEN [st EXCEPT !.warnings =
            Append(@, <<"Ignoring texture node without image", texture_node.name>>)]
    ELSE IF ~texture_node.image.pixels
    THEN [st EXCEPT !.warnings =
            Append(@, <<"Ignoring texture node without image data", texture_node.name>>)]
    ELSE [st EXCEPT
            !.available_textures = DictPut(@, texture_node.image.name, texture_node),
            !.texture_positions = DictPut(@, texture_node.image.name, st.position),
            !.position = @ + 1]

RECURSIVE FillFrom(_, _)
FillFrom(nodes, st) ==
    IF nodes = <<>> THEN st ELSE FillFrom(Tail(nodes), FillOne(Head(nodes), st))

\* TextureWriter._fill_available_image_textures
fill_available_image_textures(objs, warns) ==
    FillFrom(get_all_texture_nodes(objs),
             [available_textures |-> <<>>, texture_positions |-> <<>>,
              position |-> 0, warnings |-> warns])

\* sorted(self.texture_positions.items(), key=lambda k: k[1]): the keys
SortedByPosition(positions) ==
    [i \in 1..Len(positions) |->
        positions[CHOOSE k \in 1..Len(positions) :
            Cardinality({j \in 1..Len(positions) :
                            positions[j].value < positions[k].value}) = i - 1].key]

\* TextureWriter._write_texture_data
TextureRecord(texture_name, image_data) ==
    [is_active |-> 1, name |-> texture_name, data |-> image_data]

\* the count and the records TextureWriter.write puts out
TextureSection(positions, processed) ==
    [count |-> Len(processed),
     records |-> [i \in 1..Len(positions) |->
                    TextureRecord(DictGet(processed, SortedByPosition(positions)[i]).output_name,
                                  DictGet(processed, SortedByPosition(positions)[i]).image_data)]]

---------------------------------------------------------------------------
(* The texture writer on its own: the constructor, then write() one texture at
   a time, then the section *)

\* TextureWriter.__init__
FillTextures ==
    /\ pc = "textures"
    /\ available_textures' = fill_available_image_textures(objects, warnings).available_textures
    /\ texture_positions' = fill_available_image_textures(objects, warnings).texture_positions
    /\ warnings' = fill_available_image_textures(objects, warnings).warnings
    /\ processed_textures' = <<>>
    /\ texture_name_mapping' = <<>>
    /\ pc' = "process"
    /\ UNCHANGED <<error, meshVars, dedupVars, objects, regular_objects, kstree_groups,
                   fileVars, texconv, texconv_calls, texture_section, runVars,
                   coordVars, smartVars>>

\* the blender name the loop of _process_all_textures is at
NextTexture == available_textures[Len(processed_textures) + 1]

Processed(blender_name, r) ==
    /\ warnings' = r.warnings
    /\ texconv_calls' =
          IF r.run # <<>>
          THEN Append(texconv_calls, [texture |-> blender_name, outcome |-> r.run[1]])
          ELSE texconv_calls
    /\ error' = r.error
    /\ IF r.error # NoError
       THEN pc' = "failed" /\ UNCHANGED <<processed_textures, texture_name_mapping>>
       ELSE /\ pc' = "process"
            /\ processed_textures' =
                  DictPut(processed_textures, blender_name,
                          [output_name |-> r.output_name, image_data |-> r.image_data])
            /\ texture_name_mapping' =
                  IF r.output_name # blender_name
                  THEN DictPut(texture_name_mapping, blender_name, r.output_name)
                  ELSE texture_name_mapping

\* one turn of the loop of TextureWriter._process_all_textures
ProcessNextTexture ==
    /\ pc = "process"
    /\ Len(processed_textures) < Len(available_textures)
    /\ \E outcome \in Outcomes :
          Processed(NextTexture.key,
                    process_texture(NextTexture.value, warnings, texconv, outcome))
    /\ UNCHANGED <<meshVars, dedupVars, objects, regular_objects, kstree_groups,
                   fileVars, texconv, available_textures, texture_positions,
                   texture_section, runVars, coordVars, smartVars>>

\* on its own the texture writer ends in "done"; in KN5Exporter.write the node
\* writer is next
AfterTextures == IF entry = NotCalled THEN "done" ELSE "root"

\* the rest of TextureWriter.write: the count, then the records by position
WriteTextureSection ==
    /\ pc = "process"
    /\ Len(processed_textures) = Len(available_textures)
    /\ texture_section' = TextureSection(texture_positions, processed_textures)
    /\ pc' = AfterTextures
    /\ UNCHANGED <<error, meshVars, dedupVars, sceneVars, fileVars, texconv,
                   texconv_calls, available_textures, texture_positions,
                   processed_textures, texture_name_mapping, runVars, coordVars,
                   smartVars>>

\* the most material slots of an object
MaxSlots == 2

TextureMaterials == {MatRoad, MatGrass, MatBoth, MatSky, MatNoise, None}
TextureShapes ==
    {Shape("MESH", slots, <<Tri(0)>>) : slots \in SeqsUpTo(TextureMaterials, MaxSlots)}
    \cup {Shape("CURVE", <<m>>, <<>>) : m \in TextureMaterials}
TextureNames == {NameRoad, NameHidden}
TextureVisibilities == {Visible, InExcludedCollection}

InitTexturesOf(shapes) ==
    /\ pc = "textures"
    /\ \E n \in 1..MaxObjects :
          \E nm \in [1..n -> TextureNames], sh \in [1..n -> shapes],
             vis \in [1..n -> TextureVisibilities] :
              /\ \A i, j \in 1..n : nm[i] = nm[j] => i = j
              /\ objects = [i \in 1..n |-> SceneObject(nm[i], sh[i], vis[i], 0)]
    /\ regular_objects = <<>>
    /\ kstree_groups = <<>>
    /\ warnings = <<>>
    /\ material_positions = <<>>
    /\ obj = NoObject
    /\ divided_meshes = <<>>
    /\ limit_meshes = <<>>
    /\ mesh_data = <<>>
    /\ written = <<>>
    /\ error = NoError
    /\ group_loops = <<>>
    /\ vertices = <<>>
    /\ face_indices = <<>>
    /\ entry = NotCalled
    /\ existing = FALSE
    /\ dest = "absent"
    /\ tmp = "absent"
    /\ sections = <<>>
    /\ renamed_objects = <<>>
    /\ names_at_call = <<>>
    /\ status = NotCalled
    /\ texconv \in {"present", "absent"}
    /\ texconv_calls = <<>>
    /\ available_textures = <<>>
    /\ texture_positions = <<>>
    /\ processed_textures = <<>>
    /\ texture_name_mapping = <<>>
    /\ texture_section = <<>>
    /\ previous_output = <<>>
    /\ NoVector
    /\ NoSmartExport

InitTextures == InitTexturesOf(TextureShapes)

NextTextures == FillTextures \/ ProcessNextTexture \/ WriteTextureSection

SpecTextures == InitTextures /\ [][NextTextures]_vars

\* the texture writer on scenes with images that share a file, or a file name
\* up to the extension
SameFileMaterials == {MatGrass, MatGrassAgain, MatRoad, MatRoadPng, None}
SameFileShapes ==
    {Shape("MESH", slots, <<Tri(0)>>) : slots \in SeqsUpTo(SameFileMaterials, MaxSlots)}

InitSameFile == InitTexturesOf(SameFileShapes)

SpecSameFile == InitSameFile /\ [][NextTextures]_vars

---------------------------------------------------------------------------
(* KN5Exporter.write twice on one scene: the texture writer and the node
   writer, the output kept, and both once more *)

\* what a run has put out, with what the conversion tool did during the run
Output ==
    [texconv |-> texconv, texconv_calls |-> texconv_calls,
     texture_section |-> texture_section, written |-> written, error |-> error]

RunEnded == pc \in {"close", "except"} /\ entry = "KN5Exporter.write"

\* mutant of RunAgain: the second run has lost the positions of the materials
RunAgainWithoutMaterials ==
    /\ RunEnded
    /\ previous_output = <<>>
    /\ previous_output' = <<Output>>
    /\ texconv' \in {"present", "absent"}
    /\ pc' = "textures"
    /\ texconv_calls' = <<>>
    /\ available_textures' = <<>>
    /\ texture_positions' = <<>>
    /\ processed_textures' = <<>>
    /\ texture_name_mapping' = <<>>
    /\ texture_section' = <<>>
    /\ regular_objects' = <<>>
    /\ kstree_groups' = <<>>
    /\ warnings' = <<>>
    /\ obj' = NoObject
    /\ divided_meshes' = <<>>
    /\ limit_meshes' = <<>>
    /\ mesh_data' = <<>>
    /\ written' = <<>>
    /\ material_positions' = <<>>
    /\ error' = NoError
    /\ sections' = <<>>
    /\ UNCHANGED <<objects, dedupVars, entry, existing, dest, tmp, renamed_objects,
                   names_at_call, status, coordVars, smartVars>>

\* the first run is over: its output is put aside and the exporter is built
\* anew on the same scene; texconv.exe may have come or gone in between
RunAgain ==
    /\ RunEnded
    /\ previous_output = <<>>
    /\ previous_output' = <<Output>>
    /\ texconv' \in {"present", "absent"}
    /\ pc' = "textures"
    /\ texconv_calls' = <<>>
    /\ available_textures' = <<>>
    /\ texture_positions' = <<>>
    /\ processed_textures' = <<>>
    /\ texture_name_mapping' = <<>>
    /\ texture_section' = <<>>
    /\ regular_objects' = <<>>
    /\ kstree_groups' = <<>>
    /\ warnings' = <<>>
    /\ obj' = NoObject
    /\ divided_meshes' = <<>>
    /\ limit_meshes' = <<>>
    /\ mesh_data' = <<>>
    /\ written' = <<>>
    /\ error' = NoError
    /\ sections' = <<>>
    /\ UNCHANGED <<objects, material_positions, dedupVars, entry, existing, dest, tmp,
                   renamed_objects, names_at_call, status, coordVars, smartVars>>

\* the second run is over
RunsOver ==
    /\ RunEnded
    /\ previous_output # <<>>
    /\ pc' = "done"
    /\ UNCHANGED <<error, meshVars, dedupVars, sceneVars, fileVars, textureVars,
                   runVars, coordVars, smartVars>>

MeshGrass == Shape("MESH", <<MatGrass>>, <<Tri(0)>>)
RunShapes == {Empty, MeshRoad, MeshGrass, MeshSliver}
RunNames == {NameOak1, NameElm1, NameRoad}

InitRuns ==
    /\ pc = "textures"
    /\ IsScene(objects, RunNames, RunShapes)
    /\ material_positions = MaterialPositions(objects)
    /\ entry = "KN5Exporter.write"
    /\ regular_objects = <<>>
    /\ kstree_groups = <<>>
    /\ warnings = <<>>
    /\ obj = NoObject
    /\ divided_meshes = <<>>
    /\ limit_meshes = <<>>
    /\ mesh_data = <<>>
    /\ written = <<>>
    /\ error = NoError
    /\ group_loops = <<>>
    /\ vertices = <<>>
    /\ face_indices = <<>>
    /\ existing = FALSE
    /\ dest = "absent"
    /\ tmp = "absent"
    /\ sections = <<>>
    /\ renamed_objects = <<>>
    /\ names_at_call = <<>>
    /\ status = NotCalled
    /\ texconv \in {"present", "absent"}
    /\ texconv_calls = <<>>
    /\ available_textures = <<>>
    /\ texture_positions = <<>>
    /\ processed_textures = <<>>
    /\ texture_name_mapping = <<>>
    /\ texture_section = <<>>
    /\ previous_output = <<>>
    /\ NoVector
    /\ NoSmartExport

NextRuns ==
    \/ FillTextures
    \/ ProcessNextTexture
    \/ WriteTextureSection
    \/ WriteRoot
    \/ WriteNextGroup
    \/ WriteNextObject
    \/ NodesWritten
    \/ RunAgain
    \/ RunsOver

SpecRuns == InitRuns /\ [][NextRuns]_vars

---------------------------------------------------------------------------
(* The coordinate conversions of utils/coordinates.py and the exporter's
   convert_vector3, on vectors of whole numbers *)

\* utils.coordinates.ac_to_blender
ac_to_blender(x, y, z) == <<x, -z, y>>

\* mutant of blender_to_ac: the forward axis keeps its sign
blender_to_ac_unsigned(x, y, z) == <<x, z, y>>

\* utils.coordinates.blender_to_ac
blender_to_ac(x, y, z) == <<x, z, -y>>

\* utils.coordinates.convert_vector3
coordinates_convert_vector3(blender_vec) ==
    <<blender_vec[1], blender_vec[3], -blender_vec[2]>>

\* the largest coordinate of a vector
MaxCoord == 2

Coords == (-MaxCoord)..MaxCoord

\* (x, y, z) -> blender_to_ac(x, y, z)
ToAc ==
    /\ pc = "vector"
    /\ there' = [by |-> "blender_to_ac", vec |-> blender_to_ac(vec[1], vec[2], vec[3])]
    /\ pc' = "there"
    /\ UNCHANGED <<error, meshVars, dedupVars, sceneVars, fileVars, textureVars,
                   runVars, smartVars, vec, back, exported>>

\* (x, y, z) -> ac_to_blender(x, y, z)
ToBlender ==
    /\ pc = "vector"
    /\ there' = [by |-> "ac_to_blender", vec |-> ac_to_blender(vec[1], vec[2], vec[3])]
    /\ pc' = "there"
    /\ UNCHANGED <<error, meshVars, dedupVars, sceneVars, fileVars, textureVars,
                   runVars, smartVars, vec, back, exported>>

\* the opposite conversion on what the first one returned
ConvertBack ==
    /\ pc = "there"
    /\ back' = IF there.by = "blender_to_ac"
               THEN ac_to_blender(there.vec[1], there.vec[2], there.vec[3])
               ELSE blender_to_ac(there.vec[1], there.vec[2], there.vec[3])
    /\ pc' = "back"
    /\ UNCHANGED <<error, meshVars, dedupVars, sceneVars, fileVars, textureVars,
                   runVars, smartVars, vec, there, exported>>

\* the vector through the exporter's convert_vector3 and through the one of
\* utils/coordinates.py
ConvertVector3 ==
    /\ pc = "vector"
    /\ exported' = <<convert_vector3(vec), coordinates_convert_vector3(vec)>>
    /\ pc' = "exported"
    /\ UNCHANGED <<error, meshVars, dedupVars, sceneVars, fileVars, textureVars,
                   runVars, smartVars, vec, there, back>>

InitCoords ==
    /\ pc = "vector"
    /\ vec \in Coords \X Coords \X Coords
    /\ there = <<>>
    /\ back = <<>>
    /\ exported = <<>>
    /\ NoSmartExport
    /\ NoScene
    /\ material_positions = <<>>
    /\ obj = NoObject
    /\ divided_meshes = <<>>
    /\ limit_meshes = <<>>
    /\ mesh_data = <<>>
    /\ written = <<>>
    /\ error = NoError
    /\ group_loops = <<>>
    /\ vertices = <<>>
    /\ face_indices = <<>>
    /\ entry = NotCalled
    /\ existing = FALSE
    /\ dest = "absent"
    /\ tmp = "absent"
    /\ sections = <<>>
    /\ renamed_objects = <<>>
    /\ names_at_call = <<>>
    /\ status = NotCalled
    /\ NoTextures
    /\ previous_output = <<>>

NextCoords == ToAc \/ ToBlender \/ ConvertBack \/ ConvertVector3

SpecCoords == InitCoords /\ [][NextCoords]_vars

---------------------------------------------------------------------------
(* Claims about the texture section (SpecTextures) *)

TexturesWritten == pc = "done" /\ entry = NotCalled /\ texture_positions # <<>>

\* the texture nodes the writer takes an image from
UsableNode(node) ==
    ~is_hidden_name(node.name) /\ node.image # None /\ node.image.pixels

RECURSIVE FirstSeen(_, _)
\* the names of the distinct images of the nodes, each where it is met first
FirstSeen(nodes, seen) ==
    IF nodes = <<>> THEN seen
    ELSE IF UsableNode(Head(nodes))
            /\ \A i \in 1..Len(seen) : seen[i] # Head(nodes).image.name
    THEN FirstSeen(Tail(nodes), Append(seen, Head(nodes).image.name))
    ELSE FirstSeen(Tail(nodes), seen)

Encountered == FirstSeen(get_all_texture_nodes(objects), <<>>)

\* the record written for the image of this name
RecordOf(blender_name) ==
    TextureRecord(DictGet(processed_textures, blender_name).output_name,
                  DictGet(processed_textures, blender_name).image_data)

\* the count is the number of records, and there is one record per distinct image
C15_OneRecordPerImage ==
    TexturesWritten =>
        /\ texture_section.count = Len(texture_section.records)
        /\ Len(texture_section.records) = Len(Encountered)
        /\ \A i \in 1..Len(Encountered) :
              \E n \in 1..Len(texture_section.records) :
                  texture_section.records[n] = RecordOf(Encountered[i])

\* C15: the texture section holds one record per distinct image, its count is
\* the number of records, and the records are in the order in which the
\* distinct images were first met
C15_RecordsInFirstSeenOrder ==
    TexturesWritten =>
        /\ texture_section.count = Len(texture_section.records)
        /\ Len(texture_section.records) = Len(Encountered)
        /\ \A i \in 1..Len(Encountered) :
              texture_section.records[i] = RecordOf(Encountered[i])

\* the names of the images that a texture node of a visible mesh object uses:
\* the object is a mesh, not hidden by name and not excluded
ImagesOf(o) ==
    {FirstSeen(SlotTextureNodes(o.materials), <<>>)[k] :
        k \in 1..Len(FirstSeen(SlotTextureNodes(o.materials), <<>>))}
ImagesOfVisibleMeshes ==
    UNION {ImagesOf(objects[i]) :
            i \in {j \in 1..Len(objects) :
                      /\ objects[j].type = "MESH"
                      /\ ~is_hidden_name(objects[j].name)
                      /\ ~is_object_excluded_by_collection(objects[j])}}

\* C16: every texture record written belongs to an image that a visible,
\* non-excluded mesh object uses; an image used only by hidden-named or excluded
\* objects has no record
C16_RecordsOnlyForVisibleMeshes ==
    TexturesWritten =>
        \A n \in 1..Len(texture_section.records) :
            \E name \in ImagesOfVisibleMeshes :
                texture_section.records[n] = RecordOf(name)

---------------------------------------------------------------------------
(* Claims about the conversion of textures (SpecTextures) *)

\* the image behind a texture the writer has collected, its real file name and
\* its bytes
ImageOf(t) == available_textures[t].value.image
RealName(t) == get_real_texture_name(ImageOf(t))
RawData(t) == get_raw_image_data(ImageOf(t)).data

\* texconv.exe was run on texture t and ended in one of these ways
RanWith(t, outcomes) ==
    \E c \in 1..Len(texconv_calls) :
        /\ texconv_calls[c].texture = available_textures[t].key
        /\ texconv_calls[c].outcome \in outcomes

\* the tool is not there, or it failed on texture t, or it left no output
ConversionFailed(t) ==
    \/ texconv = "absent"
    \/ RanWith(t, {"CalledProcessError", "no output file"})

\* the texture is in the section with the bytes and the file name it came with
WrittenUnchanged(t) ==
    \E n \in 1..Len(texture_section.records) :
        texture_section.records[n] = TextureRecord(RealName(t), RawData(t))

WarnedAbout(t) ==
    \E w \in 1..Len(warnings) :
        Len(warnings[w]) = 2 /\ warnings[w][2] = RealName(t)

\* C17: a PNG texture whose conversion failed (tool absent, non-zero exit, no
\* output file) is written with its own bytes and real file name, a warning
\* names it, and the export goes on; a DDS or other non-PNG texture is written
\* unchanged and the tool is not run on it
C17_FallbackToOriginalPng ==
    /\ pc \in {"textures", "process", "done"} => error = NoError
    /\ (pc = "done" /\ entry = NotCalled) =>
          \A t \in 1..Len(available_textures) :
              /\ (is_png_data(RawData(t)) /\ ConversionFailed(t)) =>
                    WrittenUnchanged(t) /\ WarnedAbout(t)
              /\ ~is_png_data(RawData(t)) =>
                    WrittenUnchanged(t) /\ ~RanWith(t, Outcomes)

\* the tool failed on one PNG and left no output for another, and a DDS texture
\* went through, all in one finished section
C17_Witness ==
    /\ pc = "done" /\ entry = NotCalled
    /\ texconv = "present"
    /\ \E t, u, v \in 1..Len(available_textures) :
          /\ is_png_data(RawData(t)) /\ RanWith(t, {"CalledProcessError"})
          /\ is_png_data(RawData(u)) /\ RanWith(u, {"no output file"})
          /\ is_dds_data(RawData(v))
          /\ texture_section.count = Len(available_textures)

---------------------------------------------------------------------------
(* Claims about two runs on one scene (SpecRuns) *)

BothRunsOver == pc = "done" /\ entry = "KN5Exporter.write" /\ previous_output # <<>>

\* the second run put out what the first run did
SameOutput ==
    /\ texture_section = previous_output[1].texture_section
    /\ written = previous_output[1].written

\* the conversion tool was there or not, and did on each texture, the same in
\* both runs
SameConversions ==
    /\ texconv = previous_output[1].texconv
    /\ texconv_calls = previous_output[1].texconv_calls

---------------------------------------------------------------------------
(* Claims about the layout of the output stream (SpecExport) *)

SectionOrder == <<"header", "textures", "materials", "nodes">>

\* write() has returned
StreamComplete == pc = "close" /\ entry \in {"export_kn5", "operator"}

\* C19: the stream of either writer starts with the six-byte signature and the
\* uint32 version 5, followed by the texture, the material and the node section,
\* each once and in this order
C19_HeaderThenSectionsInOrder ==
    /\ Len(sections) <= Len(SectionOrder)
    /\ \A i \in 1..Len(sections) : sections[i].section = SectionOrder[i]
    /\ sections # <<>> =>
          /\ Len(sections[1].content[1]) = 6
          /\ sections[1].content = <<KN5_HEADER, 5>>
    /\ StreamComplete => Len(sections) = Len(SectionOrder)

\* the operator's writer has put out a whole stream with nodes in it
C19_Witness ==
    /\ StreamComplete
    /\ entry = "operator"
    /\ Len(sections) = 4
    /\ Len(written) > 1

---------------------------------------------------------------------------
(* Claims about the coordinate conversions (SpecCoords) *)

\* C20: a vector taken through blender_to_ac and then ac_to_blender, or the
\* other way round, is the vector itself, and both convert_vector3 map
\* (x, y, z) to (x, z, -y), which is what blender_to_ac returns
C20_ConversionsAreInverses ==
    /\ pc = "back" => back = vec
    /\ pc = "exported" =>
          /\ exported[1] = <<vec[1], vec[3], -vec[2]>>
          /\ exported[1] = blender_to_ac(vec[1], vec[2], vec[3])
          /\ exported[2] = exported[1]

\* a vector with three different non-zero coordinates has gone to the target
\* space and back
C20_Witness ==
    /\ pc = "back"
    /\ there.by = "blender_to_ac"
    /\ vec[1] # 0 /\ vec[2] > 0 /\ vec[3] < 0
    /\ there.vec # vec
    /\ back = vec

---------------------------------------------------------------------------
(* Claims about the shape of the node section (SpecNodes) *)

RECURSIVE Expected(_, _)
\* the nodes a reader still expects after the first k nodes of the section:
\* one for the root, and for every node read its declared children
Expected(nodes, k) ==
    IF k = 0 THEN 1 ELSE Expected(nodes, k - 1) - 1 + nodes[k].childCount

\* a reader that takes every declared child count at its word reads the
\* section as one tree: it is never done before the end, and done at the end
ParsesAsOneTree(nodes) ==
    /\ \A k \in 0..(Len(nodes) - 1) : Expected(nodes, k) > 0
    /\ Expected(nodes, Len(nodes)) = 0

NodesComplete == pc = "done" /\ entry = NotCalled /\ error = NoError /\ written # <<>>

\* C21: in a node section that was written to the end, every node's declared
\* child count is the number of nodes written as its direct children, so the
\* section reads as one tree under the root 'BlenderFile'
C21_ChildCountsMatchNodesWritten ==
    NodesComplete =>
        /\ written[1].name = <<"B","l","e","n","d","e","r","F","i","l","e">>
        /\ ParsesAsOneTree(written)

---------------------------------------------------------------------------
(* Claims about the chunks of the vertex-limit splitter (SpecLimit) *)

\* the vertices a chunk has taken up before its last triangle
VerticesBeforeLastTriangle(chunk) ==
    Cardinality({chunk.indices[i] : i \in 1..(Len(chunk.indices) - 3)})

\* the chunk was closed at a triangle boundary as soon as, and not before, its
\* unique vertices reached limit - 3; the last chunk may end short of that
ClosedAtLimit(chunk, last) ==
    /\ Len(chunk.indices) % 3 = 0
    /\ Len(chunk.indices) > 0
    /\ VerticesBeforeLastTriangle(chunk) < MAX_VERTICES_PER_MESH - 3
    /\ ~last => Len(chunk.vertices) >= MAX_VERTICES_PER_MESH - 3

\* what the splitter returned for one record: the record itself when it is
\* within the limit, otherwise chunks that give its triangles back
ReturnedFor(record, chunks) ==
    IF Len(record.vertices) <= MAX_VERTICES_PER_MESH
    THEN chunks = <<record>>
    ELSE /\ \A c \in 1..Len(chunks) :
               /\ WellFormed(chunks[c])
               /\ chunks[c].material_id = record.material_id
               /\ ClosedAtLimit(chunks[c], c = Len(chunks))
         /\ (\A c \in 1..Len(chunks) : WellFormed(chunks[c]))
               => ResolvedTriangles(chunks) = ResolvedTriangles(<<record>>)

\* C22: the chunks of a record over the limit, taken in order with every index
\* replaced by its vertex, are the record's triangles with its material id; a
\* chunk ends at a triangle boundary once its unique vertices have reached
\* limit - 3; records within the limit come back unchanged, all in the order of
\* the records they come from
C22_ChunksGiveBackTheRecord ==
    LimitReturned =>
        \E cut \in [0..Len(divided_meshes) -> 0..Len(limit_meshes)] :
            /\ cut[0] = 0
            /\ cut[Len(divided_meshes)] = Len(limit_meshes)
            /\ \A r \in 1..Len(divided_meshes) :
                  /\ cut[r - 1] <= cut[r]
                  /\ ReturnedFor(divided_meshes[r],
                                 SubSeq(limit_meshes, cut[r - 1] + 1, cut[r]))

\* a record over the limit came back as more than one chunk, after a record
\* within the limit that came back as it was
C22_Witness ==
    /\ LimitReturned
    /\ Len(divided_meshes) = 2
    /\ Len(divided_meshes[1].vertices) <= MAX_VERTICES_PER_MESH
    /\ Len(divided_meshes[2].vertices) > MAX_VERTICES_PER_MESH
    /\ Len(limit_meshes) > 2
    /\ limit_meshes[1] = divided_meshes[1]

---------------------------------------------------------------------------
(* Claims about the indices of the Mesh nodes (SpecNodes) *)

\* the (vertices, indices, material) tuples merged into the group node written
\* as node n, in the order they were merged
TuplesOf(n) ==
    LET groups == KstreeGroups(objects)
        g == CHOOSE h \in 1..Len(groups) : groups[h].key = Lower(written[n].name)
    IN  GroupMeshData(objects, groups[g].objects, material_positions)

\* the vertices, and the indices, of the tuples merged before tuple t
VerticesBefore(data, t) ==
    LET sum[s \in 0..Len(data)] ==
            IF s = 0 THEN 0 ELSE sum[s - 1] + Len(data[s].vertices)
    IN  sum[t - 1]

IndicesBefore(data, t) ==
    LET sum[s \in 0..Len(data)] ==
            IF s = 0 THEN 0 ELSE sum[s - 1] + Len(data[s].indices)
    IN  sum[t - 1]

\* in the group node n the triangles of every merged tuple index the vertices
\* that tuple brought, and no others
OwnVerticesOnly(n) ==
    LET data == TuplesOf(n)
    IN  /\ Len(written[n].indices) = IndicesBefore(data, Len(data) + 1)
        /\ \A t \in 1..Len(data) : \A k \in 1..Len(data[t].indices) :
              LET index == written[n].indices[IndicesBefore(data, t) + k]
              IN  /\ index >= VerticesBefore(data, t)
                  /\ index < VerticesBefore(data, t) + Len(data[t].vertices)

---------------------------------------------------------------------------
(* Claims about the container of a mesh object (SpecNodes) *)

\* the nodes written under the name of object i
NodesNamed(i) == {n \in 1..Len(written) : written[n].name = objects[i].name}

\* the records of object i after the split by material and the limit split
MeshRecordsOf(i) ==
    SplitMeshesForVertexLimit(
        SplitObjectByMaterials(objects[i], material_positions).meshes)

\* the transform a container gets from the parent of object i: the inverse of
\* the parent's world matrix in the file's axes, the identity without a parent
TransformFromParent(i) ==
    IF objects[i].parent = 0 THEN <<0, 0, 0>>
    ELSE LET world == objects[objects[i].parent].matrix_world
         IN  <<-world[1], -world[3], world[2]>>

\* node c is the container of object i, followed by the object's Mesh nodes
ContainerAt(i, c) ==
    /\ written[c].class = NODE_CLASS_NODE
    /\ written[c].childCount = Len(MeshRecordsOf(i))
    /\ written[c].transform = TransformFromParent(i)
    /\ NodesNamed(i) = c..(c + Len(MeshRecordsOf(i)))
    /\ \A n \in (c + 1)..(c + Len(MeshRecordsOf(i))) : n \in MeshNodes

\* C24: in a completed export, a mesh object that has a parent or yields more
\* than one record is written as a plain Node named after it, whose child count
\* is the number of records and whose transform comes from the parent, followed
\* by its Mesh nodes; any other mesh object is written as its Mesh node alone
C24_ContainerIffParentOrSeveralRecords ==
    pc = "done" =>
        \A i \in 1..Len(objects) :
            (objects[i].type = "MESH" /\ VisitedOrdinary(i)) =>
                IF objects[i].parent # 0 \/ Len(MeshRecordsOf(i)) > 1
                THEN \E c \in NodesNamed(i) : ContainerAt(i, c)
                ELSE /\ NodesNamed(i) \subseteq MeshNodes
                     /\ Cardinality(NodesNamed(i)) = Len(MeshRecordsOf(i))

\* a mesh of two records under a parent away from the origin has been written
\* with its container
C24_Witness ==
    /\ pc = "done"
    /\ \E i \in 1..Len(objects) :
          /\ objects[i].type = "MESH"
          /\ VisitedOrdinary(i)
          /\ objects[i].parent # 0
          /\ Len(MeshRecordsOf(i)) = 2
          /\ \E c \in NodesNamed(i) :
                /\ ContainerAt(i, c)
                /\ written[c].transform # <<0, 0, 0>>

---------------------------------------------------------------------------
(* Claims about meshes without usable UVs (SpecUvs) *)

\* object i is a mesh the writer gets to, without a UV channel or with one on
\* which the tangents cannot be computed
ExportedWithoutUvs(i) ==
    /\ objects[i].type = "MESH"
    /\ ~(objects[i].uv_layers /\ objects[i].tangents_ok)
    /\ VisitedOrdinary(i) \/ i \in GroupMeshMembers

\* every vertex of the Mesh nodes written for an ordinary object i has the
\* constant tangent (1, 0, 0)
ConstantTangents(i) ==
    \A n \in NodesNamed(i) \cap MeshNodes :
        \A k \in 1..Len(written[n].vertices) :
            written[n].vertices[k].tangent = <<One, 0, 0>>

\* every vertex of every Mesh node written has the constant tangent
AllTangentsConstant ==
    \A n \in MeshNodes : \A k \in 1..Len(written[n].vertices) :
        written[n].vertices[k].tangent = <<One, 0, 0>>

\* a warning of the list names object i
WarningNames(i) ==
    \E w \in 1..Len(warnings) : warnings[w][2] = objects[i].name

\* the scene holds nothing the writer refuses for another reason than UVs
OnlyUvsAmiss ==
    \A i \in 1..Len(objects) : ~HasChild(i)

\* C25: a mesh object without a UV channel, or whose tangents cannot be
\* computed, does not end the export; once the export has completed every
\* vertex written for it has the tangent (1, 0, 0) and a warning names it
C25_NoUvsWarnsAndContinues ==
    /\ (pc = "failed" /\ OnlyUvsAmiss) => ~\E i \in 1..Len(objects) : ExportedWithoutUvs(i)
    /\ pc = "done" =>
          \A i \in 1..Len(objects) :
              ExportedWithoutUvs(i) => /\ ConstantTangents(i)
                                       /\ WarningNames(i)

\* the part of C25 the code keeps: in a completed export every vertex written
\* for such an object has the tangent (1, 0, 0)
C25_NoUvsConstantTangent ==
    pc = "done" =>
        /\ \A i \in 1..Len(objects) :
              (ExportedWithoutUvs(i) /\ VisitedOrdinary(i)) => ConstantTangents(i)
        /\ (\A i \in 1..Len(objects) :
                objects[i].type = "MESH" => ExportedWithoutUvs(i))
              => AllTangentsConstant

---------------------------------------------------------------------------
(* Claims about the warning for unknown logical objects (SpecNodes) *)

\* the objects below object i, children and their descendants
Descendants(i) ==
    {j \in 1..Len(objects) :
        i \in Ancestors([k \in 1..Len(objects) |-> objects[k].parent], j,
                        Len(objects))}

\* the warnings for an unknown logical object that name object i
UnknownObjectWarnings(i) ==
    {w \in 1..Len(warnings) :
        warnings[w] = <<"Unknown logical object", objects[i].name>>}

\* object i is written as one plain Node under its own name
WrittenAsPlainNode(i) ==
    /\ Cardinality(NodesNamed(i)) = 1
    /\ \A n \in NodesNamed(i) : written[n].class = NODE_CLASS_NODE

\* in a completed export every object that is not a mesh and that the writer
\* got to is a plain Node, with one warning when its name is not recognised and
\* none of its descendants has one of the `bearing` types, and without one
\* otherwise
WarnedIffUnknown(bearing) ==
    pc = "done" =>
        \A i \in 1..Len(objects) :
            (objects[i].type # "MESH" /\ VisitedOrdinary(i)) =>
                /\ WrittenAsPlainNode(i)
                /\ Cardinality(UnknownObjectWarnings(i)) =
                      IF /\ ~is_ac_object(objects[i].name)
                         /\ ~\E j \in Descendants(i) : objects[j].type \in bearing
                      THEN 1 ELSE 0

\* C26: an exported object that is not a mesh, whose name matches none of the
\* recognised patterns and which has no mesh among its descendants adds exactly
\* one warning that names it and is written as a plain Node, the export
\* completing; with a recognised name or a mesh among its descendants it adds
\* no such warning
C26_UnknownObjectWarnsOnce == WarnedIffUnknown({"MESH"})

\* what the code keeps of C26: the same with curves counted among the
\* descendants that bear a mesh
C26_UnknownObjectWarnsOnceCountingCurves == WarnedIffUnknown({"MESH", "CURVE"})

---------------------------------------------------------------------------
(* Claims about the layout of the Mesh nodes (SpecNodes) *)

\* the layout of a Mesh node that declares nv vertices and ni indices: class
\* id, name, child count, active, castShadows, visible, transparent, vertex
\* count, per vertex position, normal, uv and tangent, index count, the 16-bit
\* indices, material id, layer, lodIn, lodOut, bounding sphere, renderable
MeshLayout(nv, ni) ==
    << <<"uint", "class">>, <<"string", "name">>, <<"uint", "childCount">>,
       <<"bool", "active">>, <<"bool", "castShadows">>, <<"bool", "visible">>,
       <<"bool", "transparent">>, <<"uint", "len(vertices)">> >>
    \o Flatten([v \in 1..nv |->
                  << <<"vector3", "co">>, <<"vector3", "normal">>,
                     <<"vector2", "uv">>, <<"vector3", "tangent">> >>])
    \o << <<"uint", "len(indices)">> >>
    \o [k \in 1..ni |-> <<"ushort", "index">>]
    \o << <<"uint", "material_id">>, <<"uint", "layer">>, <<"float", "lodIn">>,
          <<"float", "lodOut">>, <<"vector3", "sphere_center">>,
          <<"float", "sphere_radius">>, <<"bool", "renderable">> >>

\* C27: every Mesh node, written by _write_mesh or by _write_kstree_group, has
\* class id 2 and the one layout of Mesh nodes, and the vertex and index counts
\* it declares are the numbers of vertices and of indices that follow
C27_BothWritersOneLayout ==
    \A n \in MeshNodes :
        /\ written[n].class = 2
        /\ written[n].fields = MeshLayout(written[n].vertexCount, written[n].indexCount)
        /\ written[n].vertexCount = Len(written[n].vertices)
        /\ written[n].indexCount = Len(written[n].indices)

\* both writers have written a Mesh node, of different sizes
C27_Witness ==
    \E n, m \in MeshNodes :
        /\ GroupNodeAt(n)
        /\ ~GroupNodeAt(m)
        /\ written[n].vertexCount # written[m].vertexCount

---------------------------------------------------------------------------
(* Claims about the names of the objects around an export (SpecExport) *)

\* _perform_kn5_export has returned, with FINISHED or CANCELLED
OperatorReturned == entry = "operator" /\ pc = "done"

\* C28: after _perform_kn5_export has returned, with FINISHED or with
\* CANCELLED, every object has the name it had when the operator was called;
\* while it runs, the objects under another name are those it prefixed with
\* "__": the curves and the meshes without a material in any slot, neither
\* excluded nor hidden by name before, and no others
C28_NamesRestored ==
    /\ OperatorReturned =>
          /\ status \in {"FINISHED", "CANCELLED"}
          /\ Len(objects) = Len(names_at_call)
          /\ \A i \in 1..Len(objects) : objects[i].name = names_at_call[i]
    /\ (entry = "operator" /\ pc # "done") =>
          \A i \in 1..Len(objects) :
              objects[i].name # names_at_call[i] =>
                  /\ objects[i].name = <<"_", "_">> \o names_at_call[i]
                  /\ names_at_call[i][1] # "_" \/ names_at_call[i][2] # "_"
                  /\ ~is_object_excluded_by_collection(objects[i])
                  /\ \/ objects[i].type = "CURVE"
                     \/ /\ objects[i].type = "MESH"
                        /\ \A m \in 1..Len(objects[i].materials) :
                              objects[i].materials[m] = None

\* the operator has returned CANCELLED after it had prefixed an object, and
\* the object has its name back
C28_Witness ==
    /\ OperatorReturned
    /\ status = "CANCELLED"
    /\ renamed_objects # <<>>
    /\ \A i \in 1..Len(objects) : objects[i].name = names_at_call[i]

\* the operator has returned FINISHED after it had prefixed an object
C28_WitnessFinished ==
    /\ OperatorReturned
    /\ status = "FINISHED"
    /\ renamed_objects # <<>>

---------------------------------------------------------------------------
(* ExportKN5._execute_smart_export: the working file is saved, an export copy
   is saved and becomes the open file, the copy is prepared and exported, and
   the working file is opened again.  `warnings` holds the lines the steps
   print when they pass over an exception. *)

smartFrame ==
    <<meshVars, dedupVars, objects, regular_objects, kstree_groups, entry, existing,
      tmp, sections, renamed_objects, names_at_call, textureVars, runVars, coordVars>>

\* the operator returns `result`
Return(result) ==
    /\ status' = result
    /\ pc' = "returned"

\* bpy.ops.wm.open_mainfile(filepath=original_filepath) inside try/except
\* Exception: pass: the working file is open afterwards, or the file that was
\* open when the call raises
RecoverByOpening == current_file' \in {"working file", current_file}

\* a step inside its own try/except that prints a warning and goes on
GuardedStep(at, next, warning) ==
    /\ pc = at
    /\ pc' = next
    /\ \/ UNCHANGED warnings
       \/ warnings' = Append(warnings, <<warning>>)
    /\ UNCHANGED <<error, dest, status, smartVars, smartFrame>>

\* the ext_config.ini check before anything else: it lets the export go on,
\* fails to import the file, or hands over to the sync dialog
CheckExtConfig ==
    /\ pc = "ext_config"
    /\ \/ pc' = "filepath" /\ UNCHANGED status
       \/ Return("CANCELLED")
       \/ Return("sync dialog")
    /\ UNCHANGED <<error, dest, warnings, smartVars, smartFrame>>

\* if not bpy.data.filepath: return {'CANCELLED'}
CheckFileSaved ==
    /\ pc = "filepath"
    /\ IF current_file = "untitled" THEN Return("CANCELLED")
       ELSE pc' = "save" /\ UNCHANGED status
    /\ UNCHANGED <<error, dest, warnings, smartVars, smartFrame>>

\* step 1: bpy.ops.wm.save_mainfile(), guarded by the outer try only
SaveWorkingFile ==
    /\ pc = "save"
    /\ \/ pc' = "copy" /\ UNCHANGED error
       \/ pc' = "smart except" /\ error' = "RuntimeError: save_mainfile"
    /\ UNCHANGED <<dest, status, warnings, smartVars, smartFrame>>

\* step 2: save_as_mainfile(filepath=export_filepath) makes the export copy the
\* open file; PermissionError and every other exception return CANCELLED
CreateExportCopy ==
    /\ pc = "copy"
    /\ \/ /\ current_file' = "export copy"
          /\ export_copy' = TRUE
          /\ pc' = "make local"
          /\ UNCHANGED status
       \/ /\ Return("CANCELLED")
          /\ UNCHANGED smartVars
    /\ UNCHANGED <<error, dest, warnings, smartFrame>>

\* step 3
MakeLocal == GuardedStep("make local", "refresh", "Warning: Error making data local")

\* step 4
RefreshModifiers ==
    GuardedStep("refresh", "realize", "Warning: Error refreshing modifiers")

\* step 5: realize_and_mesh_all; an exception is answered by trying to open
\* the working file and returning CANCELLED
RealizeAndMesh ==
    /\ pc = "realize"
    /\ \/ /\ pc' = "update"
          /\ UNCHANGED <<error, status, smartVars>>
       \/ /\ error' = "Critical error during realize"
          /\ RecoverByOpening
          /\ Return("CANCELLED")
          /\ UNCHANGED export_copy
    /\ UNCHANGED <<dest, warnings, smartFrame>>

\* context.view_layer.update() and evaluated_depsgraph_get().update(), guarded
\* by the outer try only
UpdateScene ==
    /\ pc = "update"
    /\ \/ pc' = "slots" /\ UNCHANGED error
       \/ pc' = "smart except" /\ error' = "RuntimeError: update"
    /\ UNCHANGED <<dest, status, warnings, smartVars, smartFrame>>

\* step 6
RemoveEmptySlots ==
    GuardedStep("slots", "make local again",
                "Warning: Error removing empty material slots")

\* step 7
MakeLocalAgain ==
    GuardedStep("make local again", "slots again",
                "Warning: Error making everything local")

\* step 7b
RemoveEmptySlotsAgain ==
    GuardedStep("slots again", "validate",
                "Warning: Error removing empty material slots")

\* step 8
ValidateMaterials ==
    GuardedStep("validate", "export", "Warning: Error validating materials")

\* step 9: result = self._perform_kn5_export(context), which catches what its
\* steps raise; any other result than FINISHED is answered by trying to open
\* the working file and returning the result
PerformKn5Export ==
    /\ pc = "export"
    /\ \/ /\ dest' = "complete"
          /\ pc' = "save copy"
          /\ UNCHANGED <<status, smartVars>>
       \/ /\ dest' \in AfterRemove("partial") \cup AfterRemove(dest)
          /\ RecoverByOpening
          /\ Return("CANCELLED")
          /\ UNCHANGED export_copy
    /\ UNCHANGED <<error, warnings, smartFrame>>

\* bpy.ops.wm.save_mainfile() on the export copy
SaveExportFile ==
    GuardedStep("save copy", "track data", "Warning: Could not save export file")

\* step 10
SaveTrackData ==
    GuardedStep("track data", "return",
                "Warning: Error saving track data/extensions")

\* open_mainfile(filepath=original_filepath) at the end: FINISHED with the
\* working file open, CANCELLED when the call raises
ReturnToWorkingFile ==
    /\ pc = "return"
    /\ \/ /\ current_file' = "working file"
          /\ Return("FINISHED")
       \/ /\ Return("CANCELLED")
          /\ UNCHANGED current_file
    /\ UNCHANGED <<error, dest, warnings, export_copy, smartFrame>>

\* the outer except Exception: the error is reported and CANCELLED returned
SmartExportError ==
    /\ pc = "smart except"
    /\ Return("CANCELLED")
    /\ UNCHANGED <<error, dest, warnings, smartVars, smartFrame>>

InitSmart ==
    /\ pc = "ext_config"
    /\ current_file \in {"untitled", "working file"}
    /\ export_copy = FALSE
    /\ existing \in BOOLEAN
    /\ dest = IF existing THEN "old" ELSE "absent"
    /\ entry = NotCalled
    /\ tmp = "absent"
    /\ sections = <<>>
    /\ renamed_objects = <<>>
    /\ names_at_call = <<>>
    /\ status = NotCalled
    /\ error = NoError
    /\ NoScene
    /\ material_positions = <<>>
    /\ obj = NoObject
    /\ divided_meshes = <<>>
    /\ limit_meshes = <<>>
    /\ mesh_data = <<>>
    /\ written = <<>>
    /\ group_loops = <<>>
    /\ vertices = <<>>
    /\ face_indices = <<>>
    /\ NoTextures
    /\ previous_output = <<>>
    /\ NoVector

NextSmart ==
    \/ CheckExtConfig \/ CheckFileSaved \/ SaveWorkingFile \/ CreateExportCopy
    \/ MakeLocal \/ RefreshModifiers \/ RealizeAndMesh \/ UpdateScene
    \/ RemoveEmptySlots \/ MakeLocalAgain \/ RemoveEmptySlotsAgain
    \/ ValidateMaterials \/ PerformKn5Export \/ SaveExportFile \/ SaveTrackData
    \/ ReturnToWorkingFile \/ SmartExportError

SpecSmart == InitSmart /\ [][NextSmart]_vars

---------------------------------------------------------------------------
(* Claims about Smart Export (SpecSmart) *)

\* C29: once the export copy has been saved, the operator returns only with
\* the working file open again, whether it returns FINISHED or CANCELLED
C29_WorkingFileReopened ==
    (pc = "returned" /\ export_copy) => current_file = "working file"

\* what the code keeps of C29: a Smart Export that returns FINISHED has the
\* working file open again
C29_FinishedInWorkingFile ==
    (pc = "returned" /\ status = "FINISHED") =>
        export_copy /\ current_file = "working file"

---------------------------------------------------------------------------
(* Claims about the names of the texture records (SpecSameFile) *)

\* the names of the records are pairwise different
RecordNamesDiffer ==
    \A i, j \in 1..Len(texture_section.records) :
        i # j => texture_section.records[i].name # texture_section.records[j].name

\* C30: once the texture section is written no two of its records carry the
\* same name, so that a name identifies one record, also when two images come
\* from files of the same name or from files whose names differ in the
\* extension only
C30_DistinctImagesDistinctNames == TexturesWritten => RecordNamesDiffer

\* what the code keeps of C30: the records are as many as the distinct images,
\* and every image is written under the name that the mapping from image names
\* to output names gives it
C30_OneRecordPerImageUnderMappedName ==
    TexturesWritten =>
        /\ Len(texture_section.records) = Len(texture_positions)
        /\ \A k \in 1..Len(processed_textures) :
              LET blender_name == processed_textures[k].key
                  output_name == processed_textures[k].value.output_name
              IN  IF DictHas(texture_name_mapping, blender_name)
                  THEN DictGet(texture_name_mapping, blender_name) = output_name
                  ELSE blender_name = output_name

====
